---- MODULE Spec2Model ----
(***************************************************************************)
(* A model of the ID-photo pipeline of process_photo.py: the print-sheet   *)
(* packer (build_print_sheet), the crop engine (crop_to_spec and           *)
(* crop_with_padding), the segmentation cascade (get_foreground_mask) and  *)
(* the face locator (detect_face).                                         *)
(*                                                                         *)
(* The floats of the program (inches, ratios, the scale) are IEEE 754      *)
(* doubles with the program's own order of operations; a decimal text is   *)
(* written as the pair <<num, den>> and read by Float.  Pixels are         *)
(* integers.  Every component is a function of its inputs: its             *)
(* specification draws the inputs in Init and one action applies the       *)
(* function.                                                               *)
(***************************************************************************)
EXTENDS Integers, Sequences, FiniteSets, TLC

VARIABLES sheetIn, sheetOut, cropIn, cropOut, faceIn, faceOut,
          segIn, segPc, segTried, segNeural, segOut, selfieSegmenter,
          segCalls, segConstructions,
          padIn, padOut,
          mainIn, mainPc, mainLog, mainFs,
          workerCfg, workerPc, workerHandle,
          bgIn, bgPc, bgOut,
          compIn, compOut,
          keyIn, keyOut,
          guiIn, guiOut,
          manIn, manSession, manRerun

vars == <<sheetIn, sheetOut, cropIn, cropOut, faceIn, faceOut,
          segIn, segPc, segTried, segNeural, segOut, selfieSegmenter,
          segCalls, segConstructions,
          padIn, padOut,
          mainIn, mainPc, mainLog, mainFs,
          workerCfg, workerPc, workerHandle,
          bgIn, bgPc, bgOut,
          compIn, compOut,
          keyIn, keyOut,
          guiIn, guiOut,
          manIn, manSession, manRerun>>

sheetVars == <<sheetIn, sheetOut>>
cropVars == <<cropIn, cropOut>>
faceVars == <<faceIn, faceOut>>
segVars == <<segIn, segPc, segTried, segNeural, segOut, selfieSegmenter,
             segCalls, segConstructions>>
padVars == <<padIn, padOut>>
mainVars == <<mainIn, mainPc, mainLog, mainFs>>
workerVars == <<workerCfg, workerPc, workerHandle>>
bgVars == <<bgIn, bgPc, bgOut>>
compVars == <<compIn, compOut>>
keyVars == <<keyIn, keyOut>>
guiVars == <<guiIn, guiOut>>
manVars == <<manIn, manSession, manRerun>>
appVars == <<guiVars, manVars>>
extraVars == <<bgVars, compVars, keyVars, appVars>>
restVars == <<padVars, mainVars, workerVars, extraVars>>

(***************************************************************************)
(* Bounds of the model.                                                    *)
(***************************************************************************)
MaxPhoto == 3
MaxLayoutHalves == 6
MaxCopies == 3
InchDen == 2
MaxImg == 3
MaxBox == 3
MaxEye == 4
MaskPixels == 50
MaxFaces == 2
MaxFaceSide == 2
Dpis == {1, 2}

(***************************************************************************)
(* Arithmetic.                                                             *)
(***************************************************************************)
Max(a, b) == IF a >= b THEN a ELSE b
Min(a, b) == IF a <= b THEN a ELSE b
Abs(a) == IF a >= 0 THEN a ELSE -a

\* Python's round() of the rational n/d (d > 0): to nearest, ties to even.
RoundHalfEven(n, d) ==
    LET q == n \div d
        r == n % d
    IN  IF 2 * r < d THEN q
        ELSE IF 2 * r > d THEN q + 1
        ELSE IF q % 2 = 0 THEN q ELSE q + 1

(***************************************************************************)
(* IEEE 754 double precision, as Python's float.  A natural number of any  *)
(* size is the sequence of its digits to the base 2^15, least significant  *)
(* first, without leading zero digits (0 is the empty sequence).  A double *)
(* is a record [s, m, e] of value s * m * 2^e with s = 1 or -1 and m an    *)
(* odd natural number below 2^53 (zero is [1, <<>>, 0]).  Every operation  *)
(* gives the double nearest to the exact result, ties to the even          *)
(* mantissa.  Infinities, NaNs and subnormal numbers do not occur in the   *)
(* ranges of the model.  An intermediate value that is used more than once *)
(* is bound by a singleton set, {f(v) : v \in {value}}, so that it is      *)
(* computed once.                                                          *)
(***************************************************************************)
Base == 2^15

Digit(a, i) == IF i <= Len(a) THEN a[i] ELSE 0

RECURSIVE Bits(_)
Bits(n) == IF n = 0 THEN 0 ELSE 1 + Bits(n \div 2)

\* The number of digits of a[1 .. n] that are left without its leading zeros.
RECURSIVE BTop(_, _)
BTop(a, n) == IF n = 0 \/ a[n] # 0 THEN n ELSE BTop(a, n - 1)
BTrim(a) == CHOOSE r \in {SubSeq(x, 1, BTop(x, Len(x))) : x \in {a}} : TRUE

RECURSIVE BFromInt(_)
BFromInt(n) == IF n = 0 THEN <<>> ELSE <<n % Base>> \o BFromInt(n \div Base)

RECURSIVE BToIntFrom(_, _)
BToIntFrom(a, i) == IF i > Len(a) THEN 0 ELSE a[i] + Base * BToIntFrom(a, i + 1)
BToInt(a) == CHOOSE r \in {BToIntFrom(x, 1) : x \in {a}} : TRUE

BBitLen(a) == IF a = <<>> THEN 0 ELSE 15 * (Len(a) - 1) + Bits(a[Len(a)])

\* a + b, digit by digit from digit i with the carry c.
RECURSIVE BAddFrom(_, _, _, _, _)
BAddFrom(a, b, i, c, acc) ==
    IF i > Len(a) /\ i > Len(b) THEN (IF c = 0 THEN acc ELSE Append(acc, c))
    ELSE CHOOSE r \in
             {BAddFrom(a, b, i + 1, t \div Base, Append(acc, t % Base)) :
                  t \in {Digit(a, i) + Digit(b, i) + c}} : TRUE
BAdd(a, b) == BAddFrom(a, b, 1, 0, <<>>)

\* a - b for a >= b, digit by digit from digit i with the borrow c.
RECURSIVE BSubFrom(_, _, _, _, _)
BSubFrom(a, b, i, c, acc) ==
    IF i > Len(a) THEN acc
    ELSE CHOOSE r \in
             {BSubFrom(a, b, i + 1, IF t < 0 THEN 1 ELSE 0,
                       Append(acc, t % Base)) :
                  t \in {a[i] - Digit(b, i) - c}} : TRUE
BSub(a, b) == BTrim(BSubFrom(a, b, 1, 0, <<>>))

\* -1, 0 or 1 as a < b, a = b or a > b.
RECURSIVE BCmpFrom(_, _, _)
BCmpFrom(a, b, i) ==
    IF i = 0 THEN 0
    ELSE IF a[i] < b[i] THEN -1
    ELSE IF a[i] > b[i] THEN 1
    ELSE BCmpFrom(a, b, i - 1)
BCmp(a, b) ==
    IF Len(a) < Len(b) THEN -1
    ELSE IF Len(a) > Len(b) THEN 1
    ELSE BCmpFrom(a, b, Len(a))

\* a * k for a digit k, from digit i with the carry c.
RECURSIVE BMulSmallFrom(_, _, _, _, _)
BMulSmallFrom(a, k, i, c, acc) ==
    IF i > Len(a) THEN (IF c = 0 THEN acc ELSE Append(acc, c))
    ELSE CHOOSE r \in
             {BMulSmallFrom(a, k, i + 1, t \div Base, Append(acc, t % Base)) :
                  t \in {a[i] * k + c}} : TRUE
BMulSmall(a, k) == IF k = 0 THEN <<>> ELSE BMulSmallFrom(a, k, 1, 0, <<>>)

RECURSIVE BZeros(_)
BZeros(n) == IF n = 0 THEN <<>> ELSE <<0>> \o BZeros(n - 1)

\* a * b for a # 0 and b # 0: the sum of a * b[j] * Base^(j - 1).
RECURSIVE BMulFrom(_, _, _, _)
BMulFrom(a, b, j, acc) ==
    IF j > Len(b) THEN acc
    ELSE CHOOSE r \in
             {BMulFrom(a, b, j + 1, sum) :
                  sum \in {BAdd(acc, x) :
                              x \in {BZeros(j - 1) \o BMulSmall(a, b[j])}}} : TRUE
BMul(a, b) == BMulFrom(a, b, 1, <<>>)

\* <<quotient, remainder>> of a by a number 0 < d <= 2^15, from the most
\* significant digit down.
RECURSIVE BDivSmallFrom(_, _, _, _, _)
BDivSmallFrom(a, d, i, r, q) ==
    IF i = 0 THEN <<BTrim(q), r>>
    ELSE CHOOSE out \in
             {BDivSmallFrom(a, d, i - 1, t % d, <<t \div d>> \o q) :
                  t \in {r * Base + a[i]}} : TRUE
BDivSmall(a, d) == BDivSmallFrom(a, d, Len(a), 0, <<>>)

\* a * 2^k, floor(a / 2^k) and a mod 2^k.
BShl(a, k) ==
    IF a = <<>> THEN <<>>
    ELSE BZeros(k \div 15) \o BMulSmall(a, 2^(k % 15))
BShr(a, k) ==
    IF k \div 15 >= Len(a) THEN <<>>
    ELSE CHOOSE r \in
             {BDivSmall(x, 2^(k % 15))[1] :
                  x \in {SubSeq(a, k \div 15 + 1, Len(a))}} : TRUE
BLow(a, k) ==
    IF k \div 15 >= Len(a) THEN a
    ELSE BTrim(SubSeq(a, 1, k \div 15) \o <<a[k \div 15 + 1] % 2^(k % 15)>>)

\* -1, 0 or 1 as a mod 2^k is less than, equal to or more than 2^(k - 1),
\* for k > 0: the bits that rounding drops against one half.
BHalfCmp(a, k) ==
    CHOOSE c \in {BCmp(t, h) : t \in {BLow(a, k)},
                               h \in {BShl(<<1>>, k - 1)}} : TRUE

\* The number of zero bits at the low end of a # 0.
RECURSIVE LowZeros(_)
LowZeros(n) == IF n % 2 = 1 THEN 0 ELSE 1 + LowZeros(n \div 2)
RECURSIVE BLowZerosFrom(_, _)
BLowZerosFrom(a, i) ==
    IF a[i] = 0 THEN 15 + BLowZerosFrom(a, i + 1) ELSE LowZeros(a[i])

DZero == [s |-> 1, m |-> <<>>, e |-> 0]

\* The double of value s * n * 2^e exactly, for 0 <= n < 2^53.
DExact(s, n, e) ==
    IF n = <<>> THEN DZero
    ELSE CHOOSE d \in {[s |-> s, m |-> BShr(n, z), e |-> e + z] :
                          z \in {BLowZerosFrom(n, 1)}} : TRUE

\* The double nearest to s * (n + f) * 2^e, where 0 < f < 1 if sticky and
\* f = 0 if not; a sticky n has more than 53 bits.  The bits of n below
\* the 53 highest are dropped, and the rest goes up by one when they (and
\* f) are more than one half, or one half exactly and the rest is odd.
DNearest(s, n, e, sticky) ==
    IF BBitLen(n) <= 53 THEN DExact(s, n, e)
    ELSE CHOOSE d \in
             {DExact(s, m, e + BBitLen(n) - 53) :
                  m \in {IF c > 0 \/ (c = 0 /\ (sticky \/ q[1] % 2 = 1))
                         THEN BAdd(q, <<1>>) ELSE q :
                            q \in {BShr(n, BBitLen(n) - 53)},
                            c \in {BHalfCmp(n, BBitLen(n) - 53)}}} : TRUE

DFromInt(n) ==
    CHOOSE d \in
        {DExact(t[1], t[2], 0) :
            t \in {<<IF v < 0 THEN -1 ELSE 1,
                     BFromInt(IF v < 0 THEN -v ELSE v)>> : v \in {n}}} : TRUE

DAbs(a) == [a EXCEPT !.s = 1]

DMul(a, b) ==
    CHOOSE d \in
        {DNearest(t[1], t[2], t[3], FALSE) :
            t \in {IF x.m = <<>> \/ y.m = <<>> THEN <<1, <<>>, 0>>
                   ELSE <<x.s * y.s, BMul(x.m, y.m), x.e + y.e>> :
                      x \in {a}, y \in {b}}} : TRUE

\* The sum of two numbers sx * xa * 2^e and sy * ya * 2^e.
DAddAligned(sx, xa, sy, ya, e) ==
    CHOOSE d \in
        {DNearest(t[1], t[2], e, FALSE) :
            t \in {IF sx = sy THEN <<sx, BAdd(xa, ya)>>
                   ELSE IF BCmp(xa, ya) >= 0 THEN <<sx, BSub(xa, ya)>>
                   ELSE <<sy, BSub(ya, xa)>>}} : TRUE

\* a + b: both mantissas are brought to the lower of the two exponents.
DAddValues(x, y) ==
    IF y.m = <<>> THEN x
    ELSE IF x.m = <<>> THEN y
    ELSE CHOOSE d \in
             {DAddAligned(x.s, xa, y.s, ya, IF x.e <= y.e THEN x.e ELSE y.e) :
                  xa \in {BShl(x.m, IF x.e <= y.e THEN 0 ELSE x.e - y.e)},
                  ya \in {BShl(y.m, IF x.e <= y.e THEN y.e - x.e ELSE 0)}} : TRUE
DAdd(a, b) == CHOOSE d \in {DAddValues(x, y) : x \in {a}, y \in {b}} : TRUE
DSub(a, b) ==
    CHOOSE d \in {DAddValues(x, [y EXCEPT !.s = -y.s]) :
                     x \in {a}, y \in {b}} : TRUE

DLess(a, b) == CHOOSE r \in {d.m # <<>> /\ d.s = -1 : d \in {DSub(a, b)}} : TRUE

\* Long division by a number d whose top digit is at least 2^14.  The
\* next digit of the quotient is estimated from the top two digits of the
\* running remainder r and the top digit of d, which is never too small,
\* and is lowered until its product with d fits; the result is the digit
\* and that product.
RECURSIVE BFitDigit(_, _, _)
BFitDigit(r, d, q) ==
    CHOOSE out \in
        {IF BCmp(p, r) > 0 THEN BFitDigit(r, d, q - 1) ELSE <<q, p>> :
             p \in {BMulSmall(d, q)}} : TRUE
BQuotDigit(r, d) ==
    IF Len(r) < Len(d) THEN <<0, <<>>>>
    ELSE IF Len(r) = Len(d) THEN BFitDigit(r, d, 1)
    ELSE CHOOSE out \in
             {BFitDigit(r, d, IF est > Base - 1 THEN Base - 1 ELSE est) :
                  est \in {(r[Len(d) + 1] * Base + r[Len(d)]) \div d[Len(d)]}} :
             TRUE

\* <<quotient, remainder>> of a by d, from the most significant digit of a
\* down; r is the remainder and q the quotient so far.
RECURSIVE BDivFrom(_, _, _, _, _)
BDivFrom(a, d, i, r, q) ==
    IF i = 0 THEN <<BTrim(q), r>>
    ELSE CHOOSE out \in
             {BDivFrom(a, d, i - 1, t[2], <<t[1]>> \o q) :
                  t \in {<<s[2][1], BSub(s[1], s[2][2])>> :
                            s \in {<<r1, BQuotDigit(r1, d)>> :
                                      r1 \in {BTrim(<<a[i]>> \o r)}}}} : TRUE
BDivMod(a, d) == BDivFrom(a, d, Len(a), <<>>, <<>>)

\* x / y for x # 0 and y # 0.  The dividend is shifted up until the
\* quotient has 55 bits or more; the quotient, and whether a remainder is
\* left, round to the nearest double.  A divisor of one digit is divided
\* by directly; a longer one is first shifted up until its top digit is at
\* least 2^14.
DDivValues(x, y) ==
    LET up == IF Len(y.m) = 1 THEN 0 ELSE 15 - Bits(y.m[Len(y.m)])
        need == 56 + BBitLen(y.m) + up - BBitLen(x.m)
        k == IF need > 0 THEN need ELSE 0
    IN  IF Len(y.m) = 1
        THEN CHOOSE out \in
                 {DNearest(x.s * y.s, qr[1], x.e - y.e - k, qr[2] # 0) :
                      qr \in {BDivSmall(n, y.m[1]) : n \in {BShl(x.m, k)}}} :
                 TRUE
        ELSE CHOOSE out \in
                 {DNearest(x.s * y.s, qr[1], x.e - y.e + up - k, qr[2] # <<>>) :
                      qr \in {BDivMod(n, d) : n \in {BShl(x.m, k)},
                                              d \in {BShl(y.m, up)}}} : TRUE
DDiv(a, b) ==
    CHOOSE d \in {IF x.m = <<>> THEN DZero ELSE DDivValues(x, y) :
                     x \in {a}, y \in {b}} : TRUE

DFromRat(n, d) == DDiv(DFromInt(n), DFromInt(d))

\* round(x) of Python and cvRound: the nearest integer, ties to even.
DRound(a) ==
    CHOOSE r \in
        {IF x.m = <<>> THEN 0
         ELSE IF x.e >= 0 THEN x.s * BToInt(BShl(x.m, x.e))
         ELSE CHOOSE v \in
                  {x.s * (IF c > 0 \/ (c = 0 /\ i % 2 = 1) THEN i + 1 ELSE i) :
                       i \in {BToInt(BShr(x.m, -x.e))},
                       c \in {BHalfCmp(x.m, -x.e)}} : TRUE :
            x \in {a}} : TRUE

\* int(x): towards zero.
DTrunc(a) ==
    CHOOSE r \in
        {IF x.m = <<>> THEN 0
         ELSE IF x.e >= 0 THEN x.s * BToInt(BShl(x.m, x.e))
         ELSE x.s * BToInt(BShr(x.m, -x.e)) : x \in {a}} : TRUE

\* The float of a decimal text n/d, as float("0.07") and the literals of
\* the program and of its JSON files: the double nearest to n/d.
Float(q) == DFromRat(q[1], q[2])

\* int(round(inches * dpi)) for a float inches: the product is a double,
\* and round() takes that double to the nearest integer, ties to even.
InchesToPx(inches, dpi) == DRound(DMul(inches, DFromInt(dpi)))

(***************************************************************************)
(* build_print_sheet.                                                      *)
(***************************************************************************)
NoSheet == [status |-> "idle"]

\* Program constant: the length of a corner tick.
corner_size == 5

\* max_cols / max_rows of one orientation: max(1, (available + spacing) // (cell + spacing)).
MaxCells(available, cell, spacing) ==
    Max(1, (available + spacing) \div (cell + spacing))

\* A faulty variant: a tie rotates too.
ChooseRotatedOnTie(total_photos_orig, total_photos_rot) ==
    total_photos_rot >= total_photos_orig

\* The orientation choice: rotate when the rotated total is strictly larger.
ChooseRotated(total_photos_orig, total_photos_rot) ==
    total_photos_rot > total_photos_orig

\* The grid build_print_sheet lays on a sheet of sheet_w x sheet_h pixels
\* with the margin and the spacing in pixels, up to the centred margins.
SheetGrid(in, sheet_w, sheet_h, margin, spacing) ==
    LET available_width == sheet_w - 2 * margin
        available_height == sheet_h - 2 * margin
        max_cols_orig == MaxCells(available_width, in.photo_w, spacing)
        max_rows_orig == MaxCells(available_height, in.photo_h, spacing)
        total_photos_orig == max_cols_orig * max_rows_orig
        photo_w_rot == in.photo_h
        photo_h_rot == in.photo_w
        max_cols_rot == MaxCells(available_width, photo_w_rot, spacing)
        max_rows_rot == MaxCells(available_height, photo_h_rot, spacing)
        total_photos_rot == max_cols_rot * max_rows_rot
        rotated == ChooseRotated(total_photos_orig, total_photos_rot)
        photo_w == IF rotated THEN photo_w_rot ELSE in.photo_w
        photo_h == IF rotated THEN photo_h_rot ELSE in.photo_h
        max_cols == IF rotated THEN max_cols_rot ELSE max_cols_orig
        max_rows == IF rotated THEN max_rows_rot ELSE max_rows_orig
        total_photos_width == max_cols * photo_w + (max_cols - 1) * spacing
        total_photos_height == max_rows * photo_h + (max_rows - 1) * spacing
    IN  [sheet_w |-> sheet_w, sheet_h |-> sheet_h,
         margin |-> margin, spacing |-> spacing,
         available_width |-> available_width,
         available_height |-> available_height,
         max_cols_orig |-> max_cols_orig, max_rows_orig |-> max_rows_orig,
         total_photos_orig |-> total_photos_orig,
         max_cols_rot |-> max_cols_rot, max_rows_rot |-> max_rows_rot,
         total_photos_rot |-> total_photos_rot,
         rotated |-> rotated,
         photo_w |-> photo_w, photo_h |-> photo_h,
         max_cols |-> max_cols, max_rows |-> max_rows,
         left_margin |-> margin + (available_width - total_photos_width) \div 2,
         top_margin |-> margin + (available_height - total_photos_height) \div 2]

\* The geometry build_print_sheet derives from its arguments: the sheet,
\* the margin and the spacing in pixels, then the grid.
SheetGeometry(in) ==
    CHOOSE g \in
        {SheetGrid(in, px[1], px[2], px[3], px[4]) :
            px \in {<<InchesToPx(in.layout_w, in.dpi),
                      InchesToPx(in.layout_h, in.dpi),
                      InchesToPx(in.margin_in, in.dpi),
                      InchesToPx(in.spacing_in, in.dpi)>>}} : TRUE

\* A faulty variant: one photo too many.
LoopDoneOffByOne(placed, copies) == placed > copies

\* The loop's exit test.
LoopDone(placed, copies) == placed >= copies

\* A faulty variant: the cells are filled column by column.
PasteLoopColumnMajor(g, copies, row, col, pasted) ==
    [k \in 1 .. Max(0, Min(copies, g.max_cols * g.max_rows)) |->
        <<g.left_margin + ((k - 1) \div g.max_rows) * (g.photo_w + g.spacing),
          g.top_margin + ((k - 1) % g.max_rows) * (g.photo_h + g.spacing)>>]

\* The paste loop: rows outside, columns inside, leaving both loops once
\* `copies` photos are placed.  The result is the sequence of paste
\* positions <<x, y>> in the order of the pastes.
RECURSIVE PasteLoop(_, _, _, _, _)
PasteLoop(g, copies, row, col, pasted) ==
    IF row >= g.max_rows THEN pasted
    ELSE IF col >= g.max_cols
         THEN IF LoopDone(Len(pasted), copies) THEN pasted
              ELSE PasteLoop(g, copies, row + 1, 0, pasted)
    ELSE IF LoopDone(Len(pasted), copies) THEN pasted
    ELSE PasteLoop(g, copies, row, col + 1,
                   Append(pasted, <<g.left_margin + col * (g.photo_w + g.spacing),
                                    g.top_margin + row * (g.photo_h + g.spacing)>>))

\* build_print_sheet as a whole: the geometry, the pastes and the flag
\* that guides were drawn.
build_print_sheet(in) ==
    CHOOSE sheet \in
        {[status |-> "done", g |-> g,
          pasted |-> PasteLoop(g, in.copies, 0, 0, <<>>),
          draw_guides |-> in.draw_guides] : g \in {SheetGeometry(in)}} : TRUE

(***************************************************************************)
(* The pixels of the sheet.  A pixel is a record [kind, a, b]: "white"     *)
(* (the sheet's background), "photo" with the coordinate (a, b) of the     *)
(* input photo it was copied from, or "outline", "guide" and "corner" (the *)
(* three gray tones of the guide art).                                     *)
(***************************************************************************)
White == [kind |-> "white", a |-> 0, b |-> 0]
PhotoPx(x, y) == [kind |-> "photo", a |-> x, b |-> y]
Gray(kind) == [kind |-> kind, a |-> 0, b |-> 0]

\* The rectangle sheet.paste(photo, (x, y)) covers.
InPaste(g, pos, x, y) ==
    /\ x >= pos[1] /\ x < pos[1] + g.photo_w
    /\ y >= pos[2] /\ y < pos[2] + g.photo_h

\* draw.rectangle([(x, y), (x + photo_w - 1, y + photo_h - 1)], width=1):
\* the one-pixel border of the inclusive rectangle.
OnOutline(g, pos, x, y) ==
    /\ InPaste(g, pos, x, y)
    /\ \/ x = pos[1] \/ x = pos[1] + g.photo_w - 1
       \/ y = pos[2] \/ y = pos[2] + g.photo_h - 1

\* A horizontal or vertical draw.line of width 1: both end points included.
OnHLine(x0, x1, y0, x, y) == y = y0 /\ x >= Min(x0, x1) /\ x <= Max(x0, x1)
OnVLine(x0, y0, y1, x, y) == x = x0 /\ y >= Min(y0, y1) /\ y <= Max(y0, y1)

\* The x of the vertical guide line before column col (col >= 1), and the
\* y of the horizontal guide line before row `row`.
GuideLineX(g, col) == g.left_margin + col * (g.photo_w + g.spacing) - g.spacing \div 2
GuideLineY(g, row) == g.top_margin + row * (g.photo_h + g.spacing) - g.spacing \div 2

\* The full-length guide lines between the columns and between the rows.
OnGuideLine(g, x, y) ==
    \/ \E col \in 1 .. g.max_cols - 1 :
          OnVLine(GuideLineX(g, col), g.top_margin,
                  g.top_margin + g.max_rows * g.photo_h + (g.max_rows - 1) * g.spacing,
                  x, y)
    \/ \E row \in 1 .. g.max_rows - 1 :
          OnHLine(g.left_margin,
                  g.left_margin + g.max_cols * g.photo_w + (g.max_cols - 1) * g.spacing,
                  GuideLineY(g, row), x, y)

\* The eight corner ticks of the cell whose top-left corner is (cx, cy).
OnCornerTicks(g, cx, cy, x, y) ==
    LET r == cx + g.photo_w - 1
        b == cy + g.photo_h - 1
    IN  \/ OnHLine(cx, cx + corner_size, cy, x, y)
        \/ OnVLine(cx, cy, cy + corner_size, x, y)
        \/ OnHLine(r, r - corner_size, cy, x, y)
        \/ OnVLine(r, cy, cy + corner_size, x, y)
        \/ OnHLine(cx, cx + corner_size, b, x, y)
        \/ OnVLine(cx, b, b - corner_size, x, y)
        \/ OnHLine(r, r - corner_size, b, x, y)
        \/ OnVLine(r, b, b - corner_size, x, y)

\* The corner-marker loop: every cell whose row-major index is below copies.
OnCorner(g, copies, x, y) ==
    \E row \in 0 .. g.max_rows - 1 : \E col \in 0 .. g.max_cols - 1 :
        /\ row * g.max_cols + col < copies
        /\ OnCornerTicks(g, g.left_margin + col * (g.photo_w + g.spacing),
                         g.top_margin + row * (g.photo_h + g.spacing), x, y)

\* The pixel of the pasted photo at offset (px, py): the input photo's
\* pixel there, or, after photo.rotate(90, expand=True) (counter-clockwise),
\* the input photo's pixel (in_w - 1 - py, px).
PastedPixel(in, g, px, py) ==
    IF g.rotated THEN PhotoPx(in.photo_w - 1 - py, px) ELSE PhotoPx(px, py)

\* The sheet returned by build_print_sheet at (x, y): the corner ticks are
\* drawn last, the guide lines before them, and each outline right after
\* the paste of its photo.
SheetPixel(in, out, x, y) ==
    LET g == out.g
        covering == {i \in 1 .. Len(out.pasted) : InPaste(g, out.pasted[i], x, y)}
        last == CHOOSE i \in covering : \A j \in covering : j <= i
    IN  IF out.draw_guides /\ OnCorner(g, in.copies, x, y) THEN Gray("corner")
        ELSE IF out.draw_guides /\ OnGuideLine(g, x, y) THEN Gray("guide")
        ELSE IF covering = {} THEN White
        ELSE IF out.draw_guides /\ OnOutline(g, out.pasted[last], x, y)
             THEN Gray("outline")
        ELSE PastedPixel(in, g, x - out.pasted[last][1], y - out.pasted[last][2])

\* The canvas (drawing and pasting outside it is clipped), the sheet pixels
\* covered by a placed photo, and those marked by guide art.
SheetCoords(g) == (0 .. g.sheet_w - 1) \X (0 .. g.sheet_h - 1)
PhotoPixels(out) ==
    {c \in SheetCoords(out.g) :
        \E i \in 1 .. Len(out.pasted) : InPaste(out.g, out.pasted[i], c[1], c[2])}
GuidePixels(in, out) ==
    {c \in SheetCoords(out.g) :
        /\ out.draw_guides
        /\ \/ OnCorner(out.g, in.copies, c[1], c[2])
           \/ OnGuideLine(out.g, c[1], c[2])
           \/ \E i \in 1 .. Len(out.pasted) :
                 OnOutline(out.g, out.pasted[i], c[1], c[2])}

(***************************************************************************)
(* The packer's specification: Init draws the arguments, BuildPrintSheet   *)
(* runs the function.                                                      *)
(***************************************************************************)
Inches(lo, hi) == {Float(<<n, InchDen>>) : n \in lo .. hi}

SheetInputs ==
    [status : {"call"},
     photo_w : 1 .. MaxPhoto, photo_h : 1 .. MaxPhoto,
     layout_w : Inches(InchDen, MaxLayoutHalves),
     layout_h : Inches(InchDen, MaxLayoutHalves),
     dpi : Dpis,
     margin_in : Inches(0, 1), spacing_in : Inches(0, 2),
     copies : 0 .. MaxCopies, draw_guides : BOOLEAN]

NoCrop == [status |-> "idle"]
NoFace == [status |-> "idle"]
NoSeg == [status |-> "idle"]

NoPad == [status |-> "idle"]
NoMain == [status |-> "idle"]
NoWorkers == [status |-> "idle"]
NoBg == [status |-> "idle"]
NoComp == [status |-> "idle"]
NoKey == [status |-> "idle"]
NoGui == [status |-> "idle"]
NoManual == [status |-> "idle"]

OthersIdle(set) ==
    /\ "sheet" \in set \/ (sheetIn = NoSheet /\ sheetOut = NoSheet)
    /\ "crop" \in set \/ (cropIn = NoCrop /\ cropOut = NoCrop)
    /\ "face" \in set \/ (faceIn = NoFace /\ faceOut = NoFace)
    /\ "seg" \in set \/ (/\ segIn = NoSeg /\ segPc = "idle" /\ segTried = <<>>
                         /\ segNeural = NoSeg /\ segOut = NoSeg
                         /\ segCalls = 0)
    /\ "handle" \in set \/ (selfieSegmenter = "None" /\ segConstructions = 0)
    /\ "pad" \in set \/ (padIn = NoPad /\ padOut = NoPad)
    /\ "main" \in set \/ (/\ mainIn = NoMain /\ mainPc = "idle"
                          /\ mainLog = <<>> /\ mainFs = NoMain)
    /\ "workers" \in set \/ (/\ workerCfg = NoWorkers
                             /\ workerPc = <<>> /\ workerHandle = <<>>)
    /\ "bg" \in set \/ (bgIn = NoBg /\ bgPc = "idle" /\ bgOut = NoBg)
    /\ "comp" \in set \/ (compIn = NoComp /\ compOut = NoComp)
    /\ "key" \in set \/ (keyIn = NoKey /\ keyOut = NoKey)
    /\ "gui" \in set \/ (guiIn = NoGui /\ guiOut = NoGui)
    /\ "manual" \in set \/ (/\ manIn = NoManual /\ manSession = NoManual
                               /\ manRerun = NoManual)

InitSheet ==
    /\ sheetIn \in SheetInputs
    /\ sheetOut = NoSheet
    /\ OthersIdle({"sheet"})

BuildPrintSheet ==
    /\ sheetIn.status = "call"
    /\ sheetOut.status = "idle"
    /\ sheetOut' = build_print_sheet(sheetIn)
    /\ UNCHANGED <<sheetIn, cropVars, faceVars, segVars, restVars>>

NextSheet == BuildPrintSheet

SpecSheet == InitSheet /\ [][NextSheet]_vars

(***************************************************************************)
(* Claims about build_print_sheet.                                         *)
(***************************************************************************)
SheetDone == sheetOut.status = "done"

\* The arguments of the round trip: one copy, no margin, no spacing, no
\* guides, and a layout whose pixel size is the photo's.
RoundTripCall ==
    /\ sheetIn.copies = 1 /\ ~sheetIn.draw_guides
    /\ sheetIn.margin_in = DZero /\ sheetIn.spacing_in = DZero
    /\ sheetOut.g.sheet_w = sheetIn.photo_w
    /\ sheetOut.g.sheet_h = sheetIn.photo_h

\* C2 (as claimed): the round trip returns a sheet pixel-identical to the
\* input photo, for every photo size: the photo is not rotated and every
\* sheet pixel (x, y) is the photo's pixel (x, y).
C2_RoundTripIdentical ==
    (SheetDone /\ RoundTripCall) =>
        /\ ~sheetOut.g.rotated
        /\ \A c \in SheetCoords(sheetOut.g) :
              SheetPixel(sheetIn, sheetOut, c[1], c[2]) = PhotoPx(c[1], c[2])

\* C3 (as claimed): when guides are drawn no guide pixel is a sheet pixel
\* covered by a placed photo.
C3_GuidesOffPhotos ==
    (SheetDone /\ sheetOut.draw_guides) =>
        GuidePixels(sheetIn, sheetOut) \cap PhotoPixels(sheetOut) = {}

\* C4: the number of photos placed is min(copies, cols * rows) for the
\* cols and rows of the chosen orientation.
C4_PlacedCount ==
    SheetDone =>
        Len(sheetOut.pasted) =
            Min(sheetIn.copies, sheetOut.g.max_cols * sheetOut.g.max_rows)

C4_Witness ==
    /\ SheetDone
    /\ sheetOut.g.max_cols >= 2 /\ sheetOut.g.max_rows >= 2
    /\ sheetIn.copies > 0
    /\ sheetIn.copies < sheetOut.g.max_cols * sheetOut.g.max_rows
    /\ Len(sheetOut.pasted) = sheetIn.copies

\* C21: the photos are placed row by row: the k-th paste (k from 0) is at
\* x = left_margin + (k mod cols) * (photo_w + spacing) and
\* y = top_margin + (k div cols) * (photo_h + spacing).
C21_RowMajor ==
    SheetDone =>
        LET g == sheetOut.g
        IN  \A k \in 0 .. Len(sheetOut.pasted) - 1 :
                sheetOut.pasted[k + 1] =
                    <<g.left_margin + (k % g.max_cols) * (g.photo_w + g.spacing),
                      g.top_margin + (k \div g.max_cols) * (g.photo_h + g.spacing)>>

\* The first row of two or more cells is full and the second row holds a
\* photo, while the grid has cells left.
C21_Witness ==
    /\ SheetDone
    /\ sheetOut.g.max_cols >= 2 /\ sheetOut.g.max_rows >= 2
    /\ Len(sheetOut.pasted) = sheetOut.g.max_cols + 1
    /\ sheetOut.pasted[sheetOut.g.max_cols + 1][1] = sheetOut.g.left_margin
    /\ sheetOut.pasted[sheetOut.g.max_cols + 1][2] > sheetOut.g.top_margin

\* C5: the photo is rotated if and only if the rotated orientation's total
\* (as build_print_sheet computes it) is strictly greater than the
\* original orientation's; otherwise, ties included, the photo keeps its
\* orientation and the original orientation's cols and rows are used.
C5_RotateIffStrictlyMore ==
    SheetDone =>
        LET g == sheetOut.g
        IN  /\ g.rotated <=> (g.total_photos_rot > g.total_photos_orig)
            /\ g.rotated =>
                  /\ g.photo_w = sheetIn.photo_h /\ g.photo_h = sheetIn.photo_w
                  /\ g.max_cols = g.max_cols_rot /\ g.max_rows = g.max_rows_rot
            /\ ~g.rotated =>
                  /\ g.photo_w = sheetIn.photo_w /\ g.photo_h = sheetIn.photo_h
                  /\ g.max_cols = g.max_cols_orig /\ g.max_rows = g.max_rows_orig

\* A tie between two orientations that differ: the original one is kept.
C5_Witness ==
    /\ SheetDone
    /\ sheetIn.photo_w # sheetIn.photo_h
    /\ sheetOut.g.total_photos_rot = sheetOut.g.total_photos_orig
    /\ sheetOut.g.total_photos_orig >= 2
    /\ sheetOut.g.max_cols_rot # sheetOut.g.max_cols_orig
    /\ Len(sheetOut.pasted) >= 2
    /\ ~sheetOut.g.rotated

\* C6 (as claimed): for each orientation cols and rows are the floor
\* formula, also where the formula gives 0.
C6_FloorFormula ==
    SheetDone =>
        LET g == sheetOut.g
        IN  /\ g.max_cols_orig = (g.available_width + g.spacing) \div (sheetIn.photo_w + g.spacing)
            /\ g.max_rows_orig = (g.available_height + g.spacing) \div (sheetIn.photo_h + g.spacing)
            /\ g.max_cols_rot = (g.available_width + g.spacing) \div (sheetIn.photo_h + g.spacing)
            /\ g.max_rows_rot = (g.available_height + g.spacing) \div (sheetIn.photo_w + g.spacing)

\* The pixel columns of the gap left of column col of the grid, and the
\* pixel rows of the gap above row row: empty for spacing 0.
GapColumns(g, col) ==
    LET cell_x == g.left_margin + col * (g.photo_w + g.spacing)
    IN  (cell_x - g.spacing) .. (cell_x - 1)
GapRows(g, row) ==
    LET cell_y == g.top_margin + row * (g.photo_h + g.spacing)
    IN  (cell_y - g.spacing) .. (cell_y - 1)

\* C19 (as claimed): every vertical guide line lies on a pixel column of
\* the gap between the two columns of cells it separates, and every
\* horizontal guide line on a pixel row of the gap between the two rows,
\* for every spacing >= 0.
C19_GuidesInsideGaps ==
    (SheetDone /\ sheetOut.draw_guides) =>
        LET g == sheetOut.g
        IN  /\ \A col \in 1 .. g.max_cols - 1 :
                  GuideLineX(g, col) \in GapColumns(g, col)
            /\ \A row \in 1 .. g.max_rows - 1 :
                  GuideLineY(g, row) \in GapRows(g, row)

\* The grid's leftover space on each side, beyond the margin: left of the
\* grid, right of it, above it and below it.
ExtraMargins(g) ==
    LET grid_w == g.max_cols * g.photo_w + (g.max_cols - 1) * g.spacing
        grid_h == g.max_rows * g.photo_h + (g.max_rows - 1) * g.spacing
    IN  [left |-> g.left_margin - g.margin,
         right |-> (g.sheet_w - g.margin) - (g.left_margin + grid_w),
         top |-> g.top_margin - g.margin,
         bottom |-> (g.sheet_h - g.margin) - (g.top_margin + grid_h)]

\* C20 (as claimed): the extra margins left and right of the grid are
\* not negative and differ by at most one pixel, and so are those above
\* and below it.
C20_GridCentred ==
    SheetDone =>
        LET e == ExtraMargins(sheetOut.g)
        IN  /\ e.left >= 0 /\ e.right >= 0 /\ Abs(e.left - e.right) <= 1
            /\ e.top >= 0 /\ e.bottom >= 0 /\ Abs(e.top - e.bottom) <= 1

\* Two pasted rectangles of the photo's size share a pixel.
PastesOverlap(g, p, q) ==
    /\ p[1] < q[1] + g.photo_w /\ q[1] < p[1] + g.photo_w
    /\ p[2] < q[2] + g.photo_h /\ q[2] < p[2] + g.photo_h

\* C25 (as claimed): every pasted photo lies inside the sheet and inside
\* its margins, for every photo size, layout, margin and spacing, and no
\* two pasted photos overlap.
C25_PhotosInsideMargins ==
    SheetDone =>
        LET g == sheetOut.g
            n == Len(sheetOut.pasted)
        IN  /\ \A k \in 1 .. n :
                  /\ g.margin <= sheetOut.pasted[k][1]
                  /\ sheetOut.pasted[k][1] + g.photo_w <= g.sheet_w - g.margin
                  /\ g.margin <= sheetOut.pasted[k][2]
                  /\ sheetOut.pasted[k][2] + g.photo_h <= g.sheet_h - g.margin
            /\ \A j, k \in 1 .. n :
                  j # k => ~PastesOverlap(g, sheetOut.pasted[j], sheetOut.pasted[k])

(***************************************************************************)
(* crop_to_spec and crop_with_padding.  An image is its width and height;  *)
(* a PhotoSpec is [width_in, height_in, head_height_ratio,                 *)
(* eye_line_from_bottom_ratio, background_rgb], the first four floats.     *)
(* A colour is a triple; a pixel of a BGR image is the triple of its       *)
(* channels in the order blue, green, red.                                 *)
(***************************************************************************)
\* compute_output_size_px.
compute_output_size_px(spec, dpi) ==
    <<InchesToPx(spec.width_in, dpi), InchesToPx(spec.height_in, dpi)>>

\* A faulty variant: the face box is scaled to the whole output height.
CropScaleFullHeight(spec, out_h, box_h) ==
    DDiv(DFromInt(out_h), DFromInt(Max(box_h, 1)))

\* target_head_height = head_height_ratio * out_h and
\* scale = target_head_height / max(box_h, 1), each rounded to a double.
CropScale(spec, out_h, box_h) ==
    DDiv(DMul(spec.head_height_ratio, DFromInt(out_h)),
         DFromInt(Max(box_h, 1)))

\* The length of the Python slice a[start : stop] of a sequence of n items.
PySliceIndex(i, n) == IF i < 0 THEN Max(i + n, 0) ELSE Min(i, n)
PySliceLen(start, stop, n) ==
    Max(0, PySliceIndex(stop, n) - PySliceIndex(start, n))

\* A faulty variant: the right and bottom paddings ignore the window's origin.
PadAmountsNoOrigin(img_w, img_h, left, top, width, height) ==
    [pad_left |-> Max(0, -left), pad_top |-> Max(0, -top),
     pad_right |-> Max(0, width - img_w),
     pad_bottom |-> Max(0, height - img_h)]

\* The four paddings crop_with_padding adds around the image.
PadAmounts(img_w, img_h, left, top, width, height) ==
    [pad_left |-> Max(0, -left), pad_top |-> Max(0, -top),
     pad_right |-> Max(0, left + width - img_w),
     pad_bottom |-> Max(0, top + height - img_h)]

\* cv2.copyMakeBorder(..., value=background_rgb): the components of value
\* fill the channels of the border in the image's own channel order.
CopyMakeBorderValue(background_rgb) ==
    <<background_rgb[1], background_rgb[2], background_rgb[3]>>

\* cv2.cvtColor(..., cv2.COLOR_BGR2RGB) of one pixel.
BGR2RGB(pixel) == <<pixel[3], pixel[2], pixel[1]>>

\* background_rgb[::-1], the BGR pixel replace_background fills with.
ReplaceBackgroundFill(background_rgb) ==
    <<background_rgb[3], background_rgb[2], background_rgb[1]>>

\* A faulty variant: the window is not shifted by the padding added on the
\* left and on top.
crop_with_padding_unshifted(img_w, img_h, left, top, width, height, background_rgb) ==
    LET pad == PadAmounts(img_w, img_h, left, top, width, height)
        padded == pad.pad_left > 0 \/ pad.pad_top > 0
                  \/ pad.pad_right > 0 \/ pad.pad_bottom > 0
        padded_w == IF padded THEN img_w + pad.pad_left + pad.pad_right ELSE img_w
        padded_h == IF padded THEN img_h + pad.pad_top + pad.pad_bottom ELSE img_h
    IN  [status |-> "done", pad |-> pad, padded |-> padded,
         padded_w |-> padded_w, padded_h |-> padded_h,
         pad_pixel |-> CopyMakeBorderValue(background_rgb),
         left |-> left, top |-> top,
         w |-> PySliceLen(left, left + width, padded_w),
         h |-> PySliceLen(top, top + height, padded_h)]

\* crop_with_padding: pad when any padding is needed, shift the window by
\* the padding added on the left and on top, slice.  The result holds the
\* paddings, the size of the padded image, the pixel of the border, the
\* shifted origin and the size of the slice.
crop_with_padding(img_w, img_h, left, top, width, height, background_rgb) ==
    LET pad == PadAmounts(img_w, img_h, left, top, width, height)
        padded == pad.pad_left > 0 \/ pad.pad_top > 0
                  \/ pad.pad_right > 0 \/ pad.pad_bottom > 0
        padded_w == IF padded THEN img_w + pad.pad_left + pad.pad_right ELSE img_w
        padded_h == IF padded THEN img_h + pad.pad_top + pad.pad_bottom ELSE img_h
        l == IF padded THEN left + pad.pad_left ELSE left
        t == IF padded THEN top + pad.pad_top ELSE top
    IN  [status |-> "done", pad |-> pad, padded |-> padded,
         padded_w |-> padded_w, padded_h |-> padded_h,
         pad_pixel |-> CopyMakeBorderValue(background_rgb),
         left |-> l, top |-> t,
         w |-> PySliceLen(l, l + width, padded_w),
         h |-> PySliceLen(t, t + height, padded_h)]

\* The pixel in row i and column j of the image crop_with_padding returns,
\* for the result c of a call on an image of img_w x img_h pixels: the
\* pixel of the slice's row and column in the padded image, which is a
\* pixel of the border or the pixel (y, x) of the image.
CropPixel(c, img_w, img_h, i, j) ==
    LET py == PySliceIndex(c.top, c.padded_h) + i
        px == PySliceIndex(c.left, c.padded_w) + j
        y == IF c.padded THEN py - c.pad.pad_top ELSE py
        x == IF c.padded THEN px - c.pad.pad_left ELSE px
    IN  IF 0 <= y /\ y < img_h /\ 0 <= x /\ x < img_w
        THEN [kind |-> "image", y |-> y, x |-> x]
        ELSE [kind |-> "pad", bgr |-> c.pad_pixel]

\* A faulty variant: the eye line is measured from the top of the photo.
TargetEyeYFromTop(spec, out_h) ==
    DRound(DMul(DFromInt(out_h), spec.eye_line_from_bottom_ratio))

\* target_eye_y = int(round(out_h * (1 - eye_line_from_bottom_ratio))):
\* the difference is rounded to a double, then the product, and round()
\* takes that double to the nearest integer.
TargetEyeY(spec, out_h) ==
    DRound(DMul(DFromInt(out_h),
                DSub(DFromInt(1), spec.eye_line_from_bottom_ratio)))

\* The caller gave no background colour.
NoColour == <<>>

\* The test of the final resize: abs(w/h - out_w/out_h) > 0.05 on
\* doubles, for h > 0 and out_h > 0.
AspectDiffers(w, h, out_w, out_h) ==
    DLess(Float(<<5, 100>>),
          DAbs(DSub(DDiv(DFromInt(w), DFromInt(h)),
                    DDiv(DFromInt(out_w), DFromInt(out_h)))))

\* round(v * scale) for an integer v: a coordinate of the eye point, and a
\* side of the image cv2.resize(fx=scale, fy=scale) returns.
Scaled(v, scale) == DRound(DMul(DFromInt(v), scale))

\* The numbers crop_to_spec derives before it crops: the output size, the
\* scale, the size of the scaled image, the scaled eye point, the row of
\* the eye line and the origin of the crop window.
CropGeometry(in) ==
    CHOOSE geometry \in
        {[out_w |-> out[1], out_h |-> out[2], scale |-> scale,
          pad_rgb |-> IF in.background_rgb # NoColour
                      THEN in.background_rgb ELSE in.spec.background_rgb,
          resized_w |-> Scaled(in.img_w, scale),
          resized_h |-> Scaled(in.img_h, scale),
          eye_x |-> eye[1], eye_y |-> eye[2],
          target_eye_y |-> target_eye_y,
          left |-> RoundHalfEven(2 * eye[1] - out[1], 2),
          top |-> eye[2] - target_eye_y] :
             out \in {compute_output_size_px(in.spec, in.dpi)},
             scale \in {CropScale(in.spec, o[2], in.box_h) :
                           o \in {compute_output_size_px(in.spec, in.dpi)}},
             eye \in {<<Scaled(in.eye_x, sc), Scaled(in.eye_y, sc)>> :
                         sc \in {CropScale(in.spec, o[2], in.box_h) :
                                    o \in {compute_output_size_px(in.spec, in.dpi)}}},
             target_eye_y \in {TargetEyeY(in.spec, o[2]) :
                                  o \in {compute_output_size_px(in.spec, in.dpi)}}} :
        TRUE

\* crop_to_spec.  cv2.resize refuses a scale that is not positive and a
\* scaled image with no pixels (its size is the rounded product), the
\* aspect test divides by the cropped height, and the final resize refuses
\* an empty image: these end the call with an error.
crop_to_spec(in) ==
    CHOOSE result \in
        {IF g.scale.m = <<>> \/ g.scale.s < 0
            \/ g.resized_w <= 0 \/ g.resized_h <= 0
         THEN [status |-> "error", at |-> "resize", geometry |-> g]
         ELSE CHOOSE r \in
             {IF cropped.h = 0
              THEN [status |-> "error", at |-> "aspect", geometry |-> g]
              ELSE IF AspectDiffers(cropped.w, cropped.h, g.out_w, g.out_h)
              THEN IF cropped.w = 0 \/ g.out_w <= 0 \/ g.out_h <= 0
                   THEN [status |-> "error", at |-> "final resize", geometry |-> g]
                   ELSE [status |-> "ok", geometry |-> g, cropped |-> cropped,
                         final_resize |-> TRUE, w |-> g.out_w, h |-> g.out_h]
              ELSE [status |-> "ok", geometry |-> g, cropped |-> cropped,
                    final_resize |-> FALSE, w |-> cropped.w, h |-> cropped.h] :
                  cropped \in {crop_with_padding(g.resized_w, g.resized_h,
                                                 g.left, g.top, g.out_w,
                                                 g.out_h, g.pad_rgb)}} : TRUE :
            g \in {CropGeometry(in)}} : TRUE

\* load_specs, one entry of the JSON file: a size in inches is taken as it
\* is, and a size in millimetres is divided by 25.4.
load_specs(value) ==
    [width_in |-> IF "photo_width_in" \in DOMAIN value
                  THEN Float(value.photo_width_in)
                  ELSE DDiv(Float(value.photo_width_mm), Float(<<254, 10>>)),
     height_in |-> IF "photo_height_in" \in DOMAIN value
                   THEN Float(value.photo_height_in)
                   ELSE DDiv(Float(value.photo_height_mm), Float(<<254, 10>>)),
     head_height_ratio |-> Float(value.head_height_ratio),
     eye_line_from_bottom_ratio |-> Float(value.eye_line_from_bottom_ratio),
     background_rgb |-> value.background_rgb]

\* The entries of the specs file in the model: 2in x 2in, and 35mm x 45mm
\* given in millimetres.
SpecEntries ==
    {[photo_width_in |-> <<2, 1>>, photo_height_in |-> <<2, 1>>,
      head_height_ratio |-> <<69, 100>>,
      eye_line_from_bottom_ratio |-> <<55, 100>>,
      background_rgb |-> <<255, 255, 255>>],
     [photo_width_mm |-> <<35, 1>>, photo_height_mm |-> <<45, 1>>,
      head_height_ratio |-> <<3, 4>>,
      eye_line_from_bottom_ratio |-> <<3, 5>>,
      background_rgb |-> <<238, 238, 238>>]}

PhotoSpecs == {load_specs(value) : value \in SpecEntries}

\* The colours a caller passes as background_rgb: none, or a light blue.
CallerColours == {NoColour, <<200, 220, 255>>}

\* The worked example of a 2in x 2in photo at 300 dpi: a face 200 pixels
\* high with the eye point (300, 260), here in an image of 600 x 800.
CropExample ==
    [status |-> "call",
     spec |-> [width_in |-> Float(<<2, 1>>), height_in |-> Float(<<2, 1>>),
               head_height_ratio |-> Float(<<69, 100>>),
               eye_line_from_bottom_ratio |-> Float(<<55, 100>>),
               background_rgb |-> <<255, 255, 255>>],
     dpi |-> 300, img_w |-> 600, img_h |-> 800, box_h |-> 200,
     eye_x |-> 300, eye_y |-> 260, background_rgb |-> NoColour]

CropInputs ==
    [status : {"call"}, spec : PhotoSpecs, dpi : Dpis,
     img_w : 1 .. MaxImg, img_h : 1 .. MaxImg, box_h : 0 .. MaxBox,
     eye_x : -1 .. MaxEye, eye_y : -1 .. MaxEye,
     background_rgb : CallerColours]
    \cup {CropExample}

InitCrop ==
    /\ cropIn \in CropInputs
    /\ cropOut = NoCrop
    /\ OthersIdle({"crop"})

CropToSpec ==
    /\ cropIn.status = "call"
    /\ cropOut.status = "idle"
    /\ cropOut' = crop_to_spec(cropIn)
    /\ UNCHANGED <<cropIn, sheetVars, faceVars, segVars, restVars>>

NextCrop == CropToSpec

SpecCrop == InitCrop /\ [][NextCrop]_vars

(***************************************************************************)
(* Claims about crop_to_spec.                                              *)
(***************************************************************************)
CropReturned == cropOut.status = "ok"

\* C1: whenever crop_to_spec returns, the image it returns has exactly
\* round(width_in * dpi) columns and round(height_in * dpi) rows, wherever
\* the crop window lies relative to the scaled image.
C1_ExactOutputSize ==
    CropReturned =>
        /\ cropOut.w = InchesToPx(cropIn.spec.width_in, cropIn.dpi)
        /\ cropOut.h = InchesToPx(cropIn.spec.height_in, cropIn.dpi)

\* A valid face box and a crop window that lies wholly outside the scaled
\* image, to its right and below it.
C1_Witness ==
    /\ CropReturned
    /\ cropIn.box_h >= 1
    /\ cropOut.geometry.left >= cropOut.geometry.resized_w
    /\ cropOut.geometry.top >= cropOut.geometry.resized_h
    /\ cropOut.w = cropOut.geometry.out_w /\ cropOut.h = cropOut.geometry.out_h
    /\ cropOut.geometry.out_w # cropOut.geometry.out_h

\* C26: the final resize of crop_to_spec is never executed: whenever the
\* call gets as far as crop_with_padding, the image that comes back has
\* exactly out_w columns and out_h rows, so the aspect test is false and
\* the call returns that image as it is.
C26_FinalResizeNeverRuns ==
    (cropOut.status = "error" => cropOut.at = "resize")
    /\ (CropReturned =>
           /\ ~cropOut.final_resize
           /\ cropOut.cropped.w = cropOut.geometry.out_w
           /\ cropOut.cropped.h = cropOut.geometry.out_h)

\* A call that returns after padding on the left and at the bottom, for an
\* output that is not square.
C26_Witness ==
    /\ CropReturned
    /\ ~cropOut.final_resize
    /\ cropOut.cropped.pad.pad_left > 0
    /\ cropOut.cropped.pad.pad_bottom > 0
    /\ cropOut.geometry.out_w # cropOut.geometry.out_h
    /\ cropOut.cropped.w = cropOut.geometry.out_w

\* Where the scaled eye point lands in the image crop_to_spec returns: its
\* row and column in the padded image less the origin of the slice.
EyeInOutput ==
    LET g == cropOut.geometry
        c == cropOut.cropped
    IN  [row |-> g.eye_y + (IF c.padded THEN c.pad.pad_top ELSE 0)
                    - PySliceIndex(c.top, c.padded_h),
         col |-> g.eye_x + (IF c.padded THEN c.pad.pad_left ELSE 0)
                    - PySliceIndex(c.left, c.padded_w)]

\* The scaled eye point is a pixel of the scaled image.
EyeInScaledImage ==
    LET g == cropOut.geometry
    IN  /\ 0 <= g.eye_x /\ g.eye_x < g.resized_w
        /\ 0 <= g.eye_y /\ g.eye_y < g.resized_h

\* C12: in the image crop_to_spec returns, the scaled eye point lies in row
\* round(out_h * (1 - eye_line_from_bottom_ratio)) exactly and in a column
\* within one pixel of out_w / 2, with or without padding; when the eye
\* point is a pixel of the scaled image, the output pixel at that row and
\* column is that pixel.
C12_EyeLineExact ==
    CropReturned =>
        LET g == cropOut.geometry
            ratio == cropIn.spec.eye_line_from_bottom_ratio
            e == EyeInOutput
        IN  /\ e.row = DRound(DMul(DFromInt(g.out_h), DSub(DFromInt(1), ratio)))
            /\ Abs(2 * e.col - g.out_w) <= 2
            /\ (/\ EyeInScaledImage
                /\ 0 <= e.row /\ e.row < cropOut.h
                /\ 0 <= e.col /\ e.col < cropOut.w) =>
                   CropPixel(cropOut.cropped, g.resized_w, g.resized_h,
                             e.row, e.col)
                     = [kind |-> "image", y |-> g.eye_y, x |-> g.eye_x]

\* The window starts left of and above the scaled image, so padding is
\* added on the left and on top, and the eye point is a pixel of the
\* scaled image and of the output.
C12_Witness ==
    /\ CropReturned
    /\ cropOut.cropped.pad.pad_left > 0 /\ cropOut.cropped.pad.pad_top > 0
    /\ EyeInScaledImage
    /\ EyeInOutput.row = cropOut.geometry.target_eye_y
    /\ EyeInOutput.row < cropOut.h
    /\ 2 * EyeInOutput.col # cropOut.geometry.out_w

\* C13: the window's origin is left = round(eye_x' - out_w / 2) and
\* top = round(eye_y' - target_eye_y), for eye' = round(eye * scale) and
\* target_eye_y = round(out_h * (1 - eye_line_from_bottom_ratio)); in the
\* worked example (2in x 2in, head ratio 0.69, eye ratio 0.55, 300 dpi,
\* face height 200, eye point (300, 260)) the output is 600 x 600, the
\* scaled eye point (621, 538), target_eye_y 270, left 321 and top 268.
C13_WindowOrigin ==
    cropOut.status # "idle" =>
        LET g == cropOut.geometry
            ratio == cropIn.spec.eye_line_from_bottom_ratio
            head == cropIn.spec.head_height_ratio
            scale == DDiv(DMul(head, DFromInt(g.out_h)),
                          DFromInt(Max(cropIn.box_h, 1)))
            target == DRound(DMul(DFromInt(g.out_h), DSub(DFromInt(1), ratio)))
        IN  /\ g.eye_x = DRound(DMul(DFromInt(cropIn.eye_x), scale))
            /\ g.eye_y = DRound(DMul(DFromInt(cropIn.eye_y), scale))
            /\ g.target_eye_y = target
            /\ g.left = RoundHalfEven(2 * g.eye_x - g.out_w, 2)
            /\ g.top = g.eye_y - target
            /\ cropIn = CropExample =>
                  /\ g.out_w = 600 /\ g.out_h = 600
                  /\ g.eye_x = 621 /\ g.eye_y = 538
                  /\ g.target_eye_y = 270
                  /\ g.left = 321 /\ g.top = 268

\* crop_to_spec returned for the worked example.
C13_Witness ==
    /\ CropReturned
    /\ cropIn = CropExample
    /\ cropOut.geometry.left = 321 /\ cropOut.geometry.top = 268

\* C14: the scale is head_height_ratio * out_h / max(box_h, 1); it is
\* positive and finite (its denominator is not zero) for every face box,
\* a box of height 0 included; and the one scale gives both the width and
\* the height of the scaled image and both coordinates of the eye point.
C14_ScalePositiveUniform ==
    cropOut.status # "idle" =>
        LET g == cropOut.geometry
            head == cropIn.spec.head_height_ratio
        IN  /\ g.scale.s = 1 /\ g.scale.m # <<>>
            /\ g.scale = DDiv(DMul(head, DFromInt(g.out_h)),
                              DFromInt(Max(cropIn.box_h, 1)))
            /\ g.resized_w = DRound(DMul(DFromInt(cropIn.img_w), g.scale))
            /\ g.resized_h = DRound(DMul(DFromInt(cropIn.img_h), g.scale))
            /\ g.eye_x = DRound(DMul(DFromInt(cropIn.eye_x), g.scale))
            /\ g.eye_y = DRound(DMul(DFromInt(cropIn.eye_y), g.scale))

\* crop_to_spec returned for a face box of height 0: the scale is
\* head_height_ratio * out_h.
C14_Witness ==
    /\ CropReturned
    /\ cropIn.box_h = 0
    /\ cropOut.geometry.scale
         = DMul(cropIn.spec.head_height_ratio, DFromInt(cropOut.geometry.out_h))
    /\ cropOut.geometry.out_w # cropOut.geometry.out_h

\* The pixels of the image crop_to_spec returned.
CropCoords == (0 .. cropOut.h - 1) \X (0 .. cropOut.w - 1)

\* C15 (as claimed): every pixel of the returned image that lies outside
\* the scaled image reads, once converted from BGR to RGB, as the chosen
\* background colour (the caller's, or else the spec's), which is the
\* colour replace_background fills with.
C15_PadColour ==
    CropReturned =>
        \A ij \in CropCoords :
            LET px == CropPixel(cropOut.cropped, cropOut.geometry.resized_w,
                                cropOut.geometry.resized_h, ij[1], ij[2])
                chosen == IF cropIn.background_rgb # NoColour
                          THEN cropIn.background_rgb
                          ELSE cropIn.spec.background_rgb
            IN  px.kind = "pad" =>
                    /\ BGR2RGB(px.bgr) = chosen
                    /\ px.bgr = ReplaceBackgroundFill(chosen)

(***************************************************************************)
(* crop_with_padding called on its own, with a window anywhere relative to *)
(* the image.                                                              *)
(***************************************************************************)
MaxOff == 4
MaxWin == 2

PadInputs ==
    [status : {"call"}, img_w : 1 .. MaxImg, img_h : 1 .. MaxImg,
     left : -MaxOff .. MaxOff, top : -MaxOff .. MaxOff,
     width : 1 .. MaxWin, height : 1 .. MaxWin,
     background_rgb : {<<200, 220, 255>>}]

InitPad ==
    /\ padIn \in PadInputs
    /\ padOut = NoPad
    /\ OthersIdle({"pad"})

CropWithPadding ==
    /\ padIn.status = "call"
    /\ padOut.status = "idle"
    /\ padOut' = crop_with_padding(padIn.img_w, padIn.img_h, padIn.left,
                                   padIn.top, padIn.width, padIn.height,
                                   padIn.background_rgb)
    /\ UNCHANGED <<padIn, sheetVars, cropVars, faceVars, segVars,
                   mainVars, workerVars, extraVars>>

NextPad == CropWithPadding

SpecPad == InitPad /\ [][NextPad]_vars

(***************************************************************************)
(* Claims about crop_with_padding.                                         *)
(***************************************************************************)
\* C18: for every window, inside, partly outside or wholly outside the
\* image, crop_with_padding returns an image of the window's size (the
\* slice is never cut short by the bounds of the array), whose pixel in
\* row i and column j is the image's pixel (top + i, left + j) where the
\* image has one, and a pixel of the border otherwise.
C18_PadThenSlice ==
    padOut.status # "idle" =>
        /\ padOut.status = "done"
        /\ padOut.w = padIn.width /\ padOut.h = padIn.height
        /\ \A i \in 0 .. padIn.height - 1 : \A j \in 0 .. padIn.width - 1 :
              LET y == padIn.top + i
                  x == padIn.left + j
              IN  CropPixel(padOut, padIn.img_w, padIn.img_h, i, j) =
                    IF 0 <= y /\ y < padIn.img_h /\ 0 <= x /\ x < padIn.img_w
                    THEN [kind |-> "image", y |-> y, x |-> x]
                    ELSE [kind |-> "pad",
                          bgr |-> CopyMakeBorderValue(padIn.background_rgb)]

\* A window wholly left of and above the image, at a distance from it.
C18_Witness ==
    /\ padOut.status = "done"
    /\ padIn.left + padIn.width < 0 /\ padIn.top + padIn.height < 0
    /\ padOut.w = 2 /\ padOut.h = 2
    /\ CropPixel(padOut, padIn.img_w, padIn.img_h, 1, 1).kind = "pad"

(***************************************************************************)
(* get_foreground_mask: the segmentation cascade.  The image enters by the *)
(* statistics the strategies test: the mean over the channels of the       *)
(* border's standard deviation and of its mean, and whether the            *)
(* background-candidate pixels form no component, components none of which *)
(* touches the border, or a component that does.  The neural capability    *)
(* and the graph-cut are external: their outcome is drawn when they are    *)
(* called.  A neural mask enters by its number of foreground pixels.       *)
(***************************************************************************)
\* _border_color_key_mask: a mask, or None.
border_color_key_mask(img) ==
    IF img.mean_std > 45 THEN "None"
    ELSE IF img.components = "none" THEN "None"
    ELSE IF img.components = "inner" THEN "None"
    ELSE "mask"

\* _white_key_mask: a mask, or None.
white_key_mask(img, bg_tolerance) ==
    IF img.mean_mean < 180 - Max(0, bg_tolerance - 25) \/ img.mean_std > 40
    THEN "None"
    ELSE "mask"

\* A faulty variant: the bounds of the interval are accepted.
NeuralMaskAcceptedClosed(fg, total) ==
    2 * total <= 100 * fg /\ 100 * fg <= 98 * total

\* 0.02 < fg_ratio < 0.98 for fg_ratio = fg / total.
NeuralMaskAccepted(fg, total) ==
    2 * total < 100 * fg /\ 100 * fg < 98 * total

\* A faulty variant: the white key is followed by the neural strategy.
FallThroughSkipsHeuristic(strategy) ==
    CASE strategy = "border_key" -> "white_key"
      [] strategy = "white_key" -> "neural"
      [] strategy = "heuristic" -> "neural"
      [] strategy = "neural" -> "graph_cut"
      [] strategy = "graph_cut" -> "face_box"
      [] strategy = "face_box" -> "skin"

\* Where control goes when a strategy does not return.
FallThrough(strategy) ==
    CASE strategy = "border_key" -> "white_key"
      [] strategy = "white_key" -> "heuristic"
      [] strategy = "heuristic" -> "neural"
      [] strategy = "neural" -> "graph_cut"
      [] strategy = "graph_cut" -> "face_box"
      [] strategy = "face_box" -> "skin"

\* A strategy returns its mask: the call is over.
SegReturn(strategy) ==
    /\ segTried' = Append(segTried, <<strategy, "returned">>)
    /\ segOut' = [status |-> "returned", by |-> strategy]
    /\ segPc' = "done"

\* A strategy is passed over: the next one is evaluated.
SegSkip(strategy) ==
    /\ segTried' = Append(segTried, <<strategy, "skipped">>)
    /\ segOut' = segOut
    /\ segPc' = FallThrough(strategy)

\* An exception leaves get_foreground_mask.
SegRaise(strategy) ==
    /\ segTried' = Append(segTried, <<strategy, "raised">>)
    /\ segOut' = [status |-> "raised", by |-> strategy]
    /\ segPc' = "raised"

SegOthers == <<sheetVars, cropVars, faceVars, restVars, segCalls>>

BorderKey ==
    /\ segPc = "border_key"
    /\ IF border_color_key_mask(segIn.img) # "None"
       THEN SegReturn("border_key") ELSE SegSkip("border_key")
    /\ UNCHANGED <<segIn, segNeural, selfieSegmenter, segConstructions, SegOthers>>

WhiteKey ==
    /\ segPc = "white_key"
    /\ IF white_key_mask(segIn.img, segIn.bg_tolerance) # "None"
       THEN SegReturn("white_key") ELSE SegSkip("white_key")
    /\ UNCHANGED <<segIn, segNeural, selfieSegmenter, segConstructions, SegOthers>>

Heuristic ==
    /\ segPc = "heuristic"
    /\ IF segIn.prefer_white_key
       THEN SegReturn("heuristic") ELSE SegSkip("heuristic")
    /\ UNCHANGED <<segIn, segNeural, selfieSegmenter, segConstructions, SegOthers>>

\* A faulty variant: a handle is constructed whether or not there is one.
get_selfie_segmenter_always(current, mp) ==
    IF mp # "None"
    THEN IF mp = "no_solutions" THEN "None" ELSE "construct"
    ELSE current

\* _get_selfie_segmenter: the global handle when there is one, None
\* without mediapipe or without mp.solutions, and otherwise a handle to
\* construct and keep in the global.
get_selfie_segmenter(current, mp) ==
    IF current = "None" /\ mp # "None"
    THEN IF mp = "no_solutions" THEN "None" ELSE "construct"
    ELSE current

\* segmenter.process(image_rgb) and the test of its mask: the call may
\* raise, give no mask, or give a mask with fg foreground pixels out of
\* MaskPixels once blurred and thresholded.
NeuralProcess ==
    \/ /\ SegRaise("neural")
       /\ segNeural' = [status |-> "process raised"]
    \/ /\ SegSkip("neural")
       /\ segNeural' = [status |-> "no mask"]
    \/ \E fg \in 0 .. MaskPixels :
          /\ segNeural' = [status |-> "mask", fg |-> fg, total |-> MaskPixels]
          /\ IF NeuralMaskAccepted(fg, MaskPixels)
             THEN SegReturn("neural") ELSE SegSkip("neural")

\* The neural strategy.  Neither the constructor nor process is called
\* inside a try block: an exception of either leaves get_foreground_mask.
\* segConstructions counts the handles constructed in the process.
Neural ==
    /\ segPc = "neural"
    /\ LET segmenter == get_selfie_segmenter(selfieSegmenter, segIn.mp)
       IN  CASE segmenter = "None" ->
                  /\ SegSkip("neural")
                  /\ segNeural' = [status |-> "no segmenter"]
                  /\ UNCHANGED <<selfieSegmenter, segConstructions>>
             [] segmenter = "construct" ->
                  \/ /\ SegRaise("neural")
                     /\ segNeural' = [status |-> "constructor raised"]
                     /\ UNCHANGED <<selfieSegmenter, segConstructions>>
                  \/ /\ selfieSegmenter' = "handle"
                     /\ segConstructions' = segConstructions + 1
                     /\ NeuralProcess
             [] segmenter = "handle" ->
                  /\ UNCHANGED <<selfieSegmenter, segConstructions>>
                  /\ NeuralProcess
    /\ UNCHANGED <<segIn, SegOthers>>

\* The graph-cut runs inside try/except: an exception falls through.
GraphCut ==
    /\ segPc = "graph_cut"
    /\ IF segIn.face_bbox
       THEN SegReturn("graph_cut") \/ SegSkip("graph_cut")
       ELSE SegSkip("graph_cut")
    /\ UNCHANGED <<segIn, segNeural, selfieSegmenter, segConstructions, SegOthers>>

FaceBox ==
    /\ segPc = "face_box"
    /\ IF segIn.face_bbox THEN SegReturn("face_box") ELSE SegSkip("face_box")
    /\ UNCHANGED <<segIn, segNeural, selfieSegmenter, segConstructions, SegOthers>>

Skin ==
    /\ segPc = "skin"
    /\ SegReturn("skin")
    /\ UNCHANGED <<segIn, segNeural, selfieSegmenter, segConstructions, SegOthers>>

BorderStds == {40, 41, 45, 46}
BorderMeans == {154, 155, 179, 180}
Tolerances == {25, 50}

SegInputs ==
    [status : {"call"},
     img : [mean_std : BorderStds, mean_mean : BorderMeans,
            components : {"none", "inner", "border"}],
     bg_tolerance : Tolerances,
     prefer_white_key : BOOLEAN, face_bbox : BOOLEAN,
     mp : {"None", "no_solutions", "solutions"}]

InitSeg ==
    /\ segIn \in SegInputs
    /\ segPc = "border_key"
    /\ segTried = <<>>
    /\ segNeural = NoSeg
    /\ segOut = NoSeg
    /\ selfieSegmenter \in {"None", "handle"}
    /\ selfieSegmenter = "handle" => segIn.mp = "solutions"
    /\ segCalls = 1
    /\ segConstructions = (IF selfieSegmenter = "handle" THEN 1 ELSE 0)
    /\ OthersIdle({"seg", "handle"})

NextSeg ==
    \/ BorderKey \/ WhiteKey \/ Heuristic \/ Neural
    \/ GraphCut \/ FaceBox \/ Skin

SpecSeg == InitSeg /\ [][NextSeg]_vars

(***************************************************************************)
(* A process that calls get_foreground_mask several times, one call after  *)
(* the other.  The module global _selfie_segmenter starts as None and      *)
(* lives as long as the process; mediapipe is importable or not for the    *)
(* whole process.                                                          *)
(***************************************************************************)
MaxCalls == 3

\* The inputs of the calls of one process: images the border key settles
\* and images no key settles.
SegCallInputs(mp) ==
    {in \in SegInputs :
        /\ in.mp = mp
        /\ in.bg_tolerance = 25
        /\ in.img.mean_mean = 154
        /\ in.img.mean_std = 45
        /\ in.img.components \in {"none", "border"}}

InitSegCalls ==
    /\ \E mp \in {"None", "no_solutions", "solutions"} :
          segIn \in SegCallInputs(mp)
    /\ segPc = "border_key"
    /\ segTried = <<>>
    /\ segNeural = NoSeg
    /\ segOut = NoSeg
    /\ selfieSegmenter = "None"
    /\ segCalls = 1
    /\ segConstructions = 0
    /\ OthersIdle({"seg", "handle"})

\* The call is over (it returned or raised): the process makes its next one.
NextCall ==
    /\ segPc \in {"done", "raised"}
    /\ segCalls < MaxCalls
    /\ segCalls' = segCalls + 1
    /\ segIn' \in SegCallInputs(segIn.mp)
    /\ segPc' = "border_key"
    /\ segTried' = <<>>
    /\ segNeural' = NoSeg
    /\ segOut' = NoSeg
    /\ UNCHANGED <<selfieSegmenter, segConstructions,
                   sheetVars, cropVars, faceVars, restVars>>

NextSegCalls == NextSeg \/ NextCall

SpecSegCalls == InitSegCalls /\ [][NextSegCalls]_vars

(***************************************************************************)
(* Claims about get_foreground_mask.                                       *)
(***************************************************************************)
\* C7 (as claimed): get_foreground_mask never raises; it always ends by
\* returning a mask.
C7_NeverRaises ==
    /\ segPc # "raised"
    /\ segPc = "done" => segOut.status = "returned"

\* C8: the strategies are evaluated in the fixed order border-colour key,
\* white key, heuristic key, neural, graph-cut, face-box rectangle,
\* skin-colour; every strategy evaluated before the last one was skipped
\* (it gave no mask, or it did not apply: the heuristic key without the
\* caller's preference, the graph-cut and the rectangle without a face
\* box); the mask returned is that of the last strategy evaluated, so no
\* strategy after the winner is evaluated.
C8_FixedOrderFirstWins ==
    /\ Len(segTried) <= 7
    /\ \A i \in 1 .. Len(segTried) :
          /\ segTried[i][1] =
                <<"border_key", "white_key", "heuristic", "neural",
                  "graph_cut", "face_box", "skin">>[i]
          /\ i < Len(segTried) => segTried[i][2] = "skipped"
          /\ (segTried[i] = <<"border_key", "skipped">>) =>
                (\/ segIn.img.mean_std > 45 \/ segIn.img.components # "border")
          /\ (segTried[i] = <<"white_key", "skipped">>) =>
                (\/ segIn.img.mean_std > 40
                 \/ segIn.img.mean_mean < 180 - Max(0, segIn.bg_tolerance - 25))
          /\ (segTried[i] = <<"heuristic", "skipped">>) => ~segIn.prefer_white_key
          /\ (segTried[i] = <<"face_box", "skipped">>) => ~segIn.face_bbox
    /\ segPc = "done" =>
          /\ segOut.status = "returned"
          /\ segTried[Len(segTried)] = <<segOut.by, "returned">>

\* The rectangle wins after five strategies were skipped, the neural one
\* for a degenerate mask.
C8_Witness ==
    /\ segPc = "done" /\ segOut.by = "face_box"
    /\ Len(segTried) = 6
    /\ segNeural.status = "mask"

\* C9: a neural mask is returned only if its foreground fraction f
\* satisfies 0.02 < f < 0.98; a neural mask with f outside the open
\* interval is discarded and the next strategy is evaluated: the call then
\* returns the graph-cut's mask (or the rectangle, when the graph-cut
\* fails) with a face box, the skin-colour mask without one.
C9_NeuralOpenInterval ==
    /\ (segOut.status = "returned" /\ segOut.by = "neural") =>
          /\ segNeural.status = "mask"
          /\ 2 * segNeural.total < 100 * segNeural.fg
          /\ 100 * segNeural.fg < 98 * segNeural.total
    /\ (/\ segNeural.status = "mask"
        /\ \/ 100 * segNeural.fg <= 2 * segNeural.total
           \/ 100 * segNeural.fg >= 98 * segNeural.total) =>
          /\ segTried[4] = <<"neural", "skipped">>
          /\ segPc \in {"graph_cut", "face_box", "skin", "done"}
          /\ segPc = "done" =>
                /\ segTried[5][1] = "graph_cut"
                /\ IF segIn.face_bbox
                   THEN segOut.by \in {"graph_cut", "face_box"}
                   ELSE segOut.by = "skin"

\* A neural mask with f exactly 0.98 was discarded and the graph-cut's
\* mask returned.
C9_Witness ==
    /\ segNeural.status = "mask"
    /\ 100 * segNeural.fg = 98 * segNeural.total
    /\ segPc = "done" /\ segOut.by = "graph_cut"

\* The neural strategy of the current call went as far as process: the
\* capability was there and its constructor, if it ran, did not raise.
NeuralUsedHandle ==
    segNeural.status \in {"process raised", "no mask", "mask"}

\* C16: over the sequential calls of one process a handle is constructed at
\* most once; it is constructed only in the neural step of a call made
\* while the process has no handle (never while an earlier strategy wins);
\* every call whose neural strategy gets as far as process leaves the
\* handle in the global, so the first such call is the one that constructs
\* it; and once there is a handle every later call keeps it and
\* constructs nothing.
C16_ConstructedOnce ==
    /\ [](/\ segConstructions <= 1
          /\ (selfieSegmenter = "handle") <=> (segConstructions = 1)
          /\ NeuralUsedHandle => selfieSegmenter = "handle")
    /\ [][(segConstructions' # segConstructions =>
                (/\ segPc = "neural" /\ selfieSegmenter = "None"
                 /\ selfieSegmenter' = "handle"
                 /\ segConstructions' = segConstructions + 1))
           /\ (selfieSegmenter = "handle" =>
                (/\ selfieSegmenter' = "handle"
                 /\ segConstructions' = segConstructions))]_vars

\* The third call of a process reaches the neural strategy and uses the
\* handle an earlier call constructed.
C16_Witness ==
    /\ segCalls = 3
    /\ NeuralUsedHandle
    /\ segConstructions = 1
    /\ selfieSegmenter = "handle"

(***************************************************************************)
(* replace_background.  It calls get_foreground_mask with                  *)
(* prefer_white_key=True, tests the mask it gets for being almost all      *)
(* foreground and then composites.  In the same process the cascade is     *)
(* also called directly, with the caller's own prefer_white_key.  The mask *)
(* the cascade returns enters by its number of foreground pixels out of    *)
(* MaskPixels.                                                             *)
(***************************************************************************)
\* float(np.mean(fg_mask > 0)) > 0.98
MaskAlmostAllForeground(fg, total) == 100 * fg > 98 * total

BgCallers == {"replace_background", "get_foreground_mask"}

InitBg ==
    /\ bgIn \in [status : {"call"}, caller : BgCallers]
    /\ bgPc = (IF bgIn.caller = "replace_background" THEN "cascade" ELSE "direct")
    /\ bgOut = NoBg
    /\ segIn \in SegInputs
    /\ bgIn.caller = "replace_background" => segIn.prefer_white_key
    /\ segPc = "border_key"
    /\ segTried = <<>>
    /\ segNeural = NoSeg
    /\ segOut = NoSeg
    /\ selfieSegmenter \in {"None", "handle"}
    /\ selfieSegmenter = "handle" => segIn.mp = "solutions"
    /\ segCalls = 1
    /\ segConstructions = (IF selfieSegmenter = "handle" THEN 1 ELSE 0)
    /\ OthersIdle({"seg", "handle", "bg"})

\* replace_background after the cascade returned: the test of the mask,
\* the white-key mask in its place when the test holds and the white key
\* gives one, and the composite.
ReplaceBackgroundRest ==
    /\ bgPc = "cascade"
    /\ segPc = "done"
    /\ \E fg \in 0 .. MaskPixels :
          LET almost_all == MaskAlmostAllForeground(fg, MaskPixels)
              white_key == IF almost_all
                           THEN white_key_mask(segIn.img, segIn.bg_tolerance)
                           ELSE "not computed"
          IN  bgOut' = [status |-> "done", fg |-> fg, total |-> MaskPixels,
                        recomputed |-> almost_all, white_key |-> white_key,
                        mask_by |-> IF almost_all /\ white_key = "mask"
                                    THEN "white_key recomputed"
                                    ELSE segOut.by]
    /\ bgPc' = "done"
    /\ UNCHANGED <<bgIn, segVars, sheetVars, cropVars, faceVars,
                   padVars, mainVars, workerVars, compVars, keyVars, appVars>>

NextBg == NextSeg \/ ReplaceBackgroundRest

SpecBg == InitBg /\ [][NextBg]_vars

(***************************************************************************)
(* Claims about replace_background.                                        *)
(***************************************************************************)
\* C22 (as claimed): whenever the cascade's mask has at least 98% of its
\* pixels foreground, exactly 98% included, replace_background computes the
\* white-key mask again and composites with it when the white key gives
\* one.
C22_RecomputeFrom98 ==
    (bgOut.status = "done" /\ 100 * bgOut.fg >= 98 * bgOut.total) =>
        /\ bgOut.recomputed
        /\ bgOut.white_key = white_key_mask(segIn.img, segIn.bg_tolerance)
        /\ bgOut.white_key = "mask" => bgOut.mask_by = "white_key recomputed"

KeyStrategies == {"border_key", "white_key", "heuristic"}

\* C27: in a call of replace_background only the border-colour key, the
\* white key and the heuristic key are evaluated, the mask comes from one
\* of them, the cascade does not raise, and no step of the call constructs
\* a handle or touches the global.
C27_KeyStrategiesOnly ==
    /\ [](bgIn.caller = "replace_background" =>
            /\ segPc \in KeyStrategies \cup {"done"}
            /\ \A i \in 1 .. Len(segTried) : segTried[i][1] \in KeyStrategies
            /\ segNeural = NoSeg
            /\ segPc = "done" =>
                  (segOut.status = "returned" /\ segOut.by \in KeyStrategies))
    /\ [][bgIn.caller = "replace_background" =>
             (/\ selfieSegmenter' = selfieSegmenter
              /\ segConstructions' = segConstructions)]_vars

\* replace_background ended with the mask of the heuristic key, for an
\* image with a face box in a process that has mediapipe and no handle yet.
C27_Witness ==
    /\ bgIn.caller = "replace_background"
    /\ bgOut.status = "done" /\ bgOut.mask_by = "heuristic"
    /\ Len(segTried) = 3
    /\ segIn.face_bbox /\ segIn.mp = "solutions"
    /\ selfieSegmenter = "None" /\ segConstructions = 0

(***************************************************************************)
(* The composite of replace_background, one channel of one pixel.  The     *)
(* arithmetic is numpy's float32: every operation gives the float32        *)
(* nearest to the exact result, ties to even.  A positive float32 is       *)
(* <<M, e>> for the value M * 2^e with 2^23 <= M < 2^24; zero is <<0, 0>>. *)
(* The image and background values are integers 0..255; the blurred mask   *)
(* is an integer m in 0..255 and alpha is float32(m) / 255.                *)
(***************************************************************************)
F32Zero == <<0, 0>>

\* The number of binary digits of n, for 1 <= n < 2^30.
BitLen(n) == CHOOSE b \in 1 .. 30 : 2^(b - 1) <= n /\ n < 2^b

\* The float32 <<M, e>> nearest to (q + r / 2^s) * 2^e for a quotient
\* 2^23 <= q < 2^24 and a remainder 0 <= r < 2^s: ties to even, and a
\* mantissa that rounds up to 2^24 moves to the next exponent.
F32Round(q, r, s, e) ==
    LET up == 2 * r > 2^s \/ (2 * r = 2^s /\ q % 2 = 1)
        m == IF up THEN q + 1 ELSE q
    IN  IF m = 2^24 THEN <<2^23, e + 1>> ELSE <<m, e>>

\* fg_mask.astype(np.float32) / 255.0 for a mask value 0 <= m <= 255.
F32Div255(m) ==
    IF m = 0 THEN F32Zero
    ELSE LET k == CHOOSE k \in 0 .. 8 : 255 <= m * 2^k /\ m * 2^k < 510
             r == m * 2^k - 255
         IN  <<2^23 + RoundHalfEven(r * 2^23, 255), -23 - k>>

\* float32(n) * b for an integer 0 <= n <= 255 and a float32 b: the exact
\* product n * M has 23 + BitLen(n) or 24 + BitLen(n) digits and is
\* rounded to 24.
F32MulInt(n, b) ==
    IF n = 0 \/ b = F32Zero THEN F32Zero
    ELSE LET len == BitLen(n)
             q0 == n * (b[1] \div 2^len) + (n * (b[1] % 2^len)) \div 2^len
             s == IF q0 >= 2^23 THEN len ELSE len - 1
             q == n * (b[1] \div 2^s) + (n * (b[1] % 2^s)) \div 2^s
             r == (n * (b[1] % 2^s)) % 2^s
         IN  F32Round(q, r, s, b[2] + s)

\* 1.0 - a for a float32 0 <= a <= 1: exact for a >= 1/2, and otherwise
\* rounded to a multiple of 2^-24.
F32OneMinus(a) ==
    IF a = F32Zero THEN <<2^23, -23>>
    ELSE IF a = <<2^23, -23>> THEN F32Zero
    ELSE LET k == -23 - a[2]
         IN  IF k = 1
             THEN LET n == 2^24 - a[1]
                      j == 24 - BitLen(n)
                  IN  <<n * 2^j, -24 - j>>
             ELSE LET n == 2^24 - RoundHalfEven(a[1], 2^(k - 1))
                  IN  IF n = 2^24 THEN <<2^23, -23>> ELSE <<n, -24>>

\* a + b for two float32 that are not negative: the mantissa of the
\* smaller exponent is shifted with three guard digits, the digits shifted
\* out are kept as a sticky digit, and the sum is rounded to 24 digits.
F32Add(a, b) ==
    IF a = F32Zero THEN b
    ELSE IF b = F32Zero THEN a
    ELSE LET hi == IF a[2] >= b[2] THEN a ELSE b
             lo == IF a[2] >= b[2] THEN b ELSE a
             d == hi[2] - lo[2]
             shifted == IF d > 27 THEN 0 ELSE (lo[1] * 8) \div 2^d
             sticky == IF d > 27 THEN TRUE ELSE (lo[1] * 8) % 2^d # 0
             sum == hi[1] * 8 + shifted
             total == IF sticky /\ sum % 2 = 0 THEN sum + 1 ELSE sum
         IN  IF total < 2^27
             THEN F32Round(total \div 8, total % 8, 3, hi[2])
             ELSE F32Round(total \div 16, total % 16, 4, hi[2] + 1)

\* composite.astype(np.uint8) of a float32 from 0 to 255: the fraction is
\* dropped.
F32ToUint8(a) ==
    IF a = F32Zero \/ a[2] < -23 THEN 0
    ELSE a[1] \div 2^(-a[2])

\* image * alpha + background * (1.0 - alpha), then astype(np.uint8), for
\* one channel of one pixel.
Composite(image, background, m) ==
    LET alpha == F32Div255(m)
    IN  F32ToUint8(F32Add(F32MulInt(image, alpha),
                          F32MulInt(background, F32OneMinus(alpha))))

CompImages == {0, 1, 10, 127, 128, 254, 255}
CompBackgrounds == {0, 1, 3, 200, 255}
CompMasks == {0, 1, 85, 127, 128, 170, 254, 255}

InitComp ==
    /\ compIn \in [status : {"call"}, image : CompImages,
                    background : CompBackgrounds, m : CompMasks]
    /\ compOut = NoComp
    /\ OthersIdle({"comp"})

CompositePixel ==
    /\ compIn.status = "call"
    /\ compOut.status = "idle"
    /\ compOut' = [status |-> "done",
                   value |-> Composite(compIn.image, compIn.background, compIn.m)]
    /\ UNCHANGED <<compIn, bgVars, sheetVars, cropVars, faceVars, segVars,
                   padVars, mainVars, workerVars, keyVars, appVars>>

NextComp == CompositePixel

SpecComp == InitComp /\ [][NextComp]_vars

\* C23 (as claimed): the value returned is in 0..255 and is an integer
\* nearest to image * alpha + background * (1 - alpha) for alpha = m / 255,
\* that is, within 1/2 of (image * m + background * (255 - m)) / 255.
C23_RoundedToNearest ==
    compOut.status = "done" =>
        LET num == compIn.image * compIn.m + compIn.background * (255 - compIn.m)
        IN  /\ compOut.value \in 0 .. 255
            /\ 2 * Abs(255 * compOut.value - num) <= 255

(***************************************************************************)
(* _border_color_key_mask on the pixels.  The image enters by its width w  *)
(* and height h, by the mean of the border's standard deviations and by    *)
(* the set of its background-candidate pixels <<row, column>> (those whose *)
(* colour is within the threshold of the border's mean).                   *)
(***************************************************************************)
KeyPixels(w, h) == (0 .. h - 1) \X (0 .. w - 1)

\* A faulty variant: the last column is not looked at.
BorderPixelsNoLastColumn(w, h) ==
    {p \in KeyPixels(w, h) : p[1] = 0 \/ p[1] = h - 1 \/ p[2] = 0}

\* labels[0, :], labels[h - 1, :], labels[:, 0] and labels[:, w - 1].
BorderPixels(w, h) ==
    {p \in KeyPixels(w, h) :
        p[1] = 0 \/ p[1] = h - 1 \/ p[2] = 0 \/ p[2] = w - 1}

\* Two pixels are neighbours for cv2.connectedComponents, whose default
\* connectivity is 8.
Neighbours8(p, q) ==
    p # q /\ Abs(p[1] - q[1]) <= 1 /\ Abs(p[2] - q[2]) <= 1

\* The candidate pixels connected to those of seen.
RECURSIVE Flood(_, _)
Flood(seen, candidates) ==
    LET next == seen \cup {q \in candidates :
                              \E p \in seen : Neighbours8(p, q)}
    IN  IF next = seen THEN seen ELSE Flood(next, candidates)

\* cv2.connectedComponents: label 0 for the pixels that are no candidates,
\* and one positive label for each connected component of candidates (here
\* one more than the least raster index of the component's pixels).
ComponentLabels(w, h, candidates) ==
    [p \in KeyPixels(w, h) |->
        IF p \notin candidates THEN 0
        ELSE LET component == Flood({p}, candidates)
                 first == CHOOSE q \in component :
                             \A r \in component : q[1] * w + q[2] <= r[1] * w + r[2]
             IN  1 + first[1] * w + first[2]]

\* A coordinate of the window of a filter, brought into 0 .. n - 1: the
\* border of the image is replicated.
Replicate(i, n) == Max(0, Min(n - 1, i))

\* cv2.medianBlur(fg_mask, 5) of a mask of 0 and 255: a pixel is 255 when
\* the median of the 25 pixels of its 5 x 5 window is, that is when 13 or
\* more of them are.
MedianBlur5(w, h, fg_mask) ==
    {p \in KeyPixels(w, h) :
        Cardinality({d \in (-2 .. 2) \X (-2 .. 2) :
                        <<Replicate(p[1] + d[1], h), Replicate(p[2] + d[2], w)>>
                            \in fg_mask}) >= 13}

\* _border_color_key_mask: None, or the mask it returns (the pixels that
\* are 255 in it), together with the background and the foreground of the
\* mask before the median blur.
BorderColorKeyPixels(in) ==
    LET labels == ComponentLabels(in.w, in.h, in.candidates)
        num_labels == 1 + Cardinality({labels[p] : p \in in.candidates})
        border_labels == {labels[p] : p \in BorderPixels(in.w, in.h)} \ {0}
        bg_mask == {p \in KeyPixels(in.w, in.h) : labels[p] \in border_labels}
    IN  IF in.mean_std > 45 THEN [status |-> "None", at |-> "border not uniform"]
        ELSE IF num_labels <= 1 THEN [status |-> "None", at |-> "no component"]
        ELSE IF border_labels = {} THEN [status |-> "None", at |-> "no border label"]
        ELSE [status |-> "mask", background |-> bg_mask,
              foreground |-> KeyPixels(in.w, in.h) \ bg_mask,
              fg_mask |-> MedianBlur5(in.w, in.h,
                                      KeyPixels(in.w, in.h) \ bg_mask)]

KeyShapes == {<<4, 3>>, <<3, 4>>}

KeyInputs ==
    UNION {[status : {"call"}, w : {shape[1]}, h : {shape[2]},
            mean_std : {45, 46},
            candidates : SUBSET KeyPixels(shape[1], shape[2])] :
           shape \in KeyShapes}

InitKey ==
    /\ keyIn \in KeyInputs
    /\ keyOut = NoKey
    /\ OthersIdle({"key"})

BorderColorKey ==
    /\ keyIn.status = "call"
    /\ keyOut.status = "idle"
    /\ keyOut' = BorderColorKeyPixels(keyIn)
    /\ UNCHANGED <<keyIn, bgVars, compVars, sheetVars, cropVars, faceVars,
                   segVars, padVars, mainVars, workerVars, appVars>>

NextKey == BorderColorKey

SpecKey == InitKey /\ [][NextKey]_vars

\* The candidate pixels joined to a candidate pixel of the first or last
\* row or column by a chain of neighbouring candidate pixels.
BorderConnected ==
    Flood({p \in keyIn.candidates :
              \/ p[1] \in {0, keyIn.h - 1}
              \/ p[2] \in {0, keyIn.w - 1}},
          keyIn.candidates)

\* C24: when the border-colour key gives a mask, its background before the
\* median blur is exactly the candidate pixels of the components that have
\* a pixel in row 0, the last row, column 0 or the last column, and every
\* other pixel, the candidates of an enclosed component included, is
\* foreground there; it gives no mask exactly when the border is not
\* uniform or no candidate component touches the border.
C24_BorderConnectedBackground ==
    keyOut.status # "idle" =>
        /\ keyOut.status = "None" <=>
              (keyIn.mean_std > 45 \/ BorderConnected = {})
        /\ keyOut.status = "mask" =>
              /\ keyOut.background = BorderConnected
              /\ keyOut.foreground = KeyPixels(keyIn.w, keyIn.h) \ BorderConnected

\* The key gives a mask for an image with a candidate pixel enclosed by
\* pixels that are no candidates: the enclosed pixel is foreground.
C24_Witness ==
    /\ keyOut.status = "mask"
    /\ <<1, 1>> \in keyIn.candidates
    /\ <<1, 1>> \in keyOut.foreground
    /\ keyOut.background # {}

(***************************************************************************)
(* Two workers of one process inside _get_selfie_segmenter.  The function  *)
(* takes no lock, so its steps are those between which another thread can  *)
(* run: the test of the global, the call of the constructor, the store     *)
(* into the global and the read of the global for the return value.  A     *)
(* constructed handle is named after the worker that constructed it (h0   *)
(* is a handle an earlier call of the process left in the global).  The    *)
(* workers' callers either serialise the calls (sync) or do not.           *)
(***************************************************************************)
Workers == {1, 2}

NewHandle(w) == IF w = 1 THEN "h1" ELSE "h2"

\* A worker is between the test of the global and its return.
WorkerInside(w) == workerPc[w] \in {"construct", "store", "return"}

\* With external synchronisation a call starts only when no other worker
\* is inside the function.
WorkerMayEnter(w) ==
    workerCfg.sync => \A v \in Workers \ {w} : ~WorkerInside(v)

InitWorkers ==
    /\ workerCfg \in [status : {"call"}, sync : BOOLEAN,
                       mp : {"None", "no_solutions", "solutions"}]
    /\ workerPc = [w \in Workers |-> "call"]
    /\ workerHandle = [w \in Workers |-> "unset"]
    /\ selfieSegmenter \in {"None", "h0"}
    /\ selfieSegmenter = "h0" => workerCfg.mp = "solutions"
    /\ segConstructions = (IF selfieSegmenter = "h0" THEN 1 ELSE 0)
    /\ OthersIdle({"workers", "handle"})

WorkerOthers == <<sheetVars, cropVars, faceVars, padVars, mainVars, extraVars,
                  segIn, segPc, segTried, segNeural, segOut, segCalls>>

\* if _selfie_segmenter is None and mp is not None: ... hasattr(mp, "solutions")
WorkerCheck(w) ==
    /\ workerPc[w] = "call"
    /\ WorkerMayEnter(w)
    /\ LET segmenter == get_selfie_segmenter(selfieSegmenter, workerCfg.mp)
       IN  IF segmenter = "construct"
           THEN /\ workerPc' = [workerPc EXCEPT ![w] = "construct"]
                /\ UNCHANGED workerHandle
           ELSE IF selfieSegmenter = "None" /\ workerCfg.mp = "no_solutions"
           THEN /\ workerPc' = [workerPc EXCEPT ![w] = "done"]
                /\ workerHandle' = [workerHandle EXCEPT ![w] = "None"]
           ELSE /\ workerPc' = [workerPc EXCEPT ![w] = "return"]
                /\ UNCHANGED workerHandle
    /\ UNCHANGED <<workerCfg, selfieSegmenter, segConstructions, WorkerOthers>>

\* mp.solutions.selfie_segmentation.SelfieSegmentation(model_selection=1):
\* a new handle, or an exception.
WorkerConstruct(w) ==
    /\ workerPc[w] = "construct"
    /\ \/ /\ workerPc' = [workerPc EXCEPT ![w] = "store"]
          /\ workerHandle' = [workerHandle EXCEPT ![w] = NewHandle(w)]
          /\ segConstructions' = segConstructions + 1
       \/ /\ workerPc' = [workerPc EXCEPT ![w] = "raised"]
          /\ UNCHANGED <<workerHandle, segConstructions>>
    /\ UNCHANGED <<workerCfg, selfieSegmenter, WorkerOthers>>

\* _selfie_segmenter = <the new handle>
WorkerStore(w) ==
    /\ workerPc[w] = "store"
    /\ selfieSegmenter' = workerHandle[w]
    /\ workerPc' = [workerPc EXCEPT ![w] = "return"]
    /\ UNCHANGED <<workerCfg, workerHandle, segConstructions, WorkerOthers>>

\* return _selfie_segmenter
WorkerReturn(w) ==
    /\ workerPc[w] = "return"
    /\ workerHandle' = [workerHandle EXCEPT ![w] = selfieSegmenter]
    /\ workerPc' = [workerPc EXCEPT ![w] = "done"]
    /\ UNCHANGED <<workerCfg, selfieSegmenter, segConstructions, WorkerOthers>>

NextWorkers ==
    \E w \in Workers :
        \/ WorkerCheck(w) \/ WorkerConstruct(w)
        \/ WorkerStore(w) \/ WorkerReturn(w)

SpecWorkers == InitWorkers /\ [][NextWorkers]_vars

(***************************************************************************)
(* Claims about the handle shared by concurrent workers.                   *)
(***************************************************************************)
WorkersDone == \A w \in Workers : workerPc[w] = "done"

\* C17 (as claimed): also without external synchronisation at most one
\* handle is constructed, and two workers that returned from
\* _get_selfie_segmenter hold the same handle.
C17_OneHandleUnsynchronised ==
    /\ segConstructions <= 1
    /\ WorkersDone => workerHandle[1] = workerHandle[2]

\* C17 (amended): when the callers serialise their calls of
\* _get_selfie_segmenter, at most one handle is constructed and two workers
\* that returned hold the same handle.
C17_OneHandleSynchronised ==
    workerCfg.sync =>
        /\ segConstructions <= 1
        /\ WorkersDone => workerHandle[1] = workerHandle[2]

\* Two serialised workers returned the one handle the first constructed.
C17_Witness ==
    /\ workerCfg.sync
    /\ WorkersDone
    /\ segConstructions = 1
    /\ workerHandle[1] = "h2" /\ workerHandle[2] = "h2"

(***************************************************************************)
(* detect_face.  The cascade classifier is external: the candidates of a   *)
(* pass, a sequence of boxes <<x, y, w, h>>, are drawn when the pass runs. *)
(***************************************************************************)
BoxArea(f) == f[3] * f[4]

\* A faulty variant: the candidate of smallest area.
RECURSIVE LargestFaceSmallest(_)
LargestFaceSmallest(faces) ==
    IF Len(faces) = 1 THEN faces[1]
    ELSE LET rest == LargestFaceSmallest(Tail(faces))
         IN  IF BoxArea(faces[1]) <= BoxArea(rest) THEN faces[1] ELSE rest

\* max(faces, key=lambda f: f[2] * f[3]): the first candidate of largest area.
RECURSIVE LargestFace(_)
LargestFace(faces) ==
    IF Len(faces) = 1 THEN faces[1]
    ELSE LET rest == LargestFace(Tail(faces))
         IN  IF BoxArea(faces[1]) >= BoxArea(rest) THEN faces[1] ELSE rest

\* The eye estimate: (x + w // 2, y + int(h * 0.35)); the product is a
\* double and int() drops its fraction.
EyePoint(f) ==
    <<f[1] + f[3] \div 2,
      f[2] + DTrunc(DMul(DFromInt(f[4]), Float(<<35, 100>>)))>>

\* What detect_face does once both passes are over.
FaceResult(first, second_ran, second) ==
    LET faces == IF second_ran THEN second ELSE first
    IN  IF Len(faces) = 0
        THEN [status |-> "error", first |-> first, second_ran |-> second_ran,
              second |-> second]
        ELSE [status |-> "ok", first |-> first, second_ran |-> second_ran,
              second |-> second,
              bbox |-> LargestFace(faces), eye |-> EyePoint(LargestFace(faces))]

\* The boxes a pass may return: small ones, and one of the size of a face
\* in a photograph, 200 x 180 at (10, 20).
FaceBoxes ==
    ({0, 1} \X {0} \X (1 .. MaxFaceSide) \X (1 .. MaxFaceSide))
        \cup {<<10, 20, 200, 180>>}

Candidates ==
    UNION {[1 .. n -> FaceBoxes] : n \in 0 .. MaxFaces}

InitFace ==
    /\ faceIn = [status |-> "call"]
    /\ faceOut = NoFace
    /\ OthersIdle({"face"})

\* detect_face: the second pass runs when the first one found nothing.
DetectFace ==
    /\ faceIn.status = "call"
    /\ faceOut.status = "idle"
    /\ \E first \in Candidates :
          IF Len(first) = 0
          THEN \E second \in Candidates :
                  faceOut' = FaceResult(first, TRUE, second)
          ELSE faceOut' = FaceResult(first, FALSE, <<>>)
    /\ UNCHANGED <<faceIn, sheetVars, cropVars, segVars, restVars>>

NextFace == DetectFace

SpecFace == InitFace /\ [][NextFace]_vars

(***************************************************************************)
(* Claims about detect_face.                                               *)
(***************************************************************************)
\* C10: detect_face fails if and only if the first pass and the second
\* pass both return no candidate; the second pass runs only when the first
\* found nothing; otherwise a box and an eye point are returned, the box
\* being a candidate of the pass that found some, of largest area w * h.
C10_NoFaceIffBothEmpty ==
    faceOut.status # "idle" =>
        /\ faceOut.second_ran <=> (Len(faceOut.first) = 0)
        /\ faceOut.status = "error" <=>
              (Len(faceOut.first) = 0 /\ faceOut.second_ran /\ Len(faceOut.second) = 0)
        /\ faceOut.status = "ok" =>
              LET faces == IF Len(faceOut.first) > 0 THEN faceOut.first
                           ELSE faceOut.second
              IN  /\ \E i \in 1 .. Len(faces) : faces[i] = faceOut.bbox
                  /\ \A i \in 1 .. Len(faces) :
                        faces[i][3] * faces[i][4] <= faceOut.bbox[3] * faceOut.bbox[4]
                  /\ faceOut.eye[1] = faceOut.bbox[1] + faceOut.bbox[3] \div 2

\* The first pass found nothing, the second found two candidates of
\* different areas, the smaller one first: the larger one is returned.
C10_Witness ==
    /\ faceOut.status = "ok"
    /\ faceOut.second_ran
    /\ Len(faceOut.second) = 2
    /\ BoxArea(faceOut.second[1]) < BoxArea(faceOut.second[2])
    /\ faceOut.bbox = faceOut.second[2]
(***************************************************************************)
(* main: the command-line pipeline.  Its steps run one after the other;    *)
(* mainLog records each step that ran and how it ended, mainFs what the    *)
(* run did to the file system: whether the output directory exists and    *)
(* was created by the run, and whether each output file is absent, old     *)
(* (left by an earlier run) or new (written by this run).  The command     *)
(* line, the specs file, the input image, the face detection, the crop,    *)
(* the layout and the file system decide how a step ends; an exception or  *)
(* a SystemExit of a step leaves main, which catches nothing.  The parse   *)
(* of the command line comes before the first step and is not logged.      *)
(***************************************************************************)
MainSteps(replace_bg) ==
    IF replace_bg
    THEN <<"load_specs", "imread", "detect_face", "replace_background",
           "crop_to_spec", "mkdir", "save_photo", "build_print_sheet",
           "save_sheet">>
    ELSE <<"load_specs", "imread", "detect_face",
           "crop_to_spec", "mkdir", "save_photo", "build_print_sheet",
           "save_sheet">>

\* A faulty variant: a failed face detection does not end the run.
MainAfterFaceNotFatal(step, outcome, replace_bg) ==
    IF outcome = "failed" /\ step # "detect_face" THEN "exit"
    ELSE CASE step = "parse_args" -> "load_specs"
           [] step = "load_specs" -> "imread"
           [] step = "imread" -> "detect_face"
           [] step = "detect_face" ->
                IF replace_bg THEN "replace_background" ELSE "crop_to_spec"
           [] step = "replace_background" -> "crop_to_spec"
           [] step = "crop_to_spec" -> "mkdir"
           [] step = "mkdir" -> "save_photo"
           [] step = "save_photo" -> "build_print_sheet"
           [] step = "build_print_sheet" -> "save_sheet"
           [] step = "save_sheet" -> "done"

\* Where main goes after a step: out, when the step raised, and otherwise
\* to the next statement.
MainAfter(step, outcome, replace_bg) ==
    IF outcome = "failed" THEN "exit"
    ELSE CASE step = "parse_args" -> "load_specs"
           [] step = "load_specs" -> "imread"
           [] step = "imread" -> "detect_face"
           [] step = "detect_face" ->
                IF replace_bg THEN "replace_background" ELSE "crop_to_spec"
           [] step = "replace_background" -> "crop_to_spec"
           [] step = "crop_to_spec" -> "mkdir"
           [] step = "mkdir" -> "save_photo"
           [] step = "save_photo" -> "build_print_sheet"
           [] step = "build_print_sheet" -> "save_sheet"
           [] step = "save_sheet" -> "done"

\* A file of the output directory before the run: left by an earlier run,
\* or absent.
OldFile(output_dir) == IF output_dir = "old files" THEN "old" ELSE "absent"

\* The command line, the specs file, the input image and the output
\* directory before the run.  args: argparse accepts the command line, or
\* refuses it, as it does for --layout 4.  layout: the sides of the sheet
\* are finite, or not, as for --layout nanx6.  sheet_numbers: the layout,
\* --dpi, --margin and --spacing give pixel sizes build_print_sheet can
\* work with, or not: int(round(...)) raises for --margin nan, --margin
\* inf, --spacing nan and --layout 1e308x6, and the division by
\* photo_w + spacing raises for --spacing -2 with a photo 2 in wide.
\* background_rgb: the colour of the country's entry in the specs file has
\* three values, or another number of them, which load_specs accepts as it
\* is (tuple(value["background_rgb"])).
MainInputs ==
    [status : {"call"},
     args : {"accepted", "refused"},
     layout : {"finite", "not finite"},
     sheet_numbers : {"usable", "not usable"},
     background_rgb : {"three values", "two values"},
     specs : {"country known", "country unknown", "file unreadable"},
     image : {"readable", "unreadable"},
     replace_bg : BOOLEAN,
     output_dir : {"absent", "empty", "old files"}]

InitMain ==
    /\ mainIn \in MainInputs
    /\ mainPc = "parse_args"
    /\ mainLog = <<>>
    /\ mainFs = [status |-> "fs", dir |-> mainIn.output_dir # "absent",
                 dir_created |-> FALSE,
                 photo |-> OldFile(mainIn.output_dir),
                 sheet |-> OldFile(mainIn.output_dir)]
    /\ OthersIdle({"main"})

MainOthers == <<sheetVars, cropVars, faceVars, segVars, padVars, workerVars,
                extraVars>>

\* A step of main ends with the given outcome.
MainStep(step, outcome) ==
    /\ mainPc = step
    /\ mainLog' = Append(mainLog, <<step, outcome>>)
    /\ mainPc' = MainAfter(step, outcome, mainIn.replace_bg)
    /\ UNCHANGED <<mainIn, MainOthers>>

\* parser.parse_args(): argparse ends the run with SystemExit(2) on a
\* command line it refuses, before any step of the pipeline.
ParseArgs ==
    /\ mainPc = "parse_args"
    /\ mainPc' = MainAfter("parse_args",
                           IF mainIn.args = "accepted" THEN "ok" ELSE "failed",
                           mainIn.replace_bg)
    /\ UNCHANGED <<mainIn, mainLog, mainFs, MainOthers>>

\* load_specs and the test of the country: load_specs raises on a file it
\* cannot read or parse, an unknown country raises SystemExit.
LoadSpecs ==
    /\ MainStep("load_specs",
                IF mainIn.specs = "country known" THEN "ok" ELSE "failed")
    /\ UNCHANGED mainFs

\* cv2.imread gives None for a file it cannot decode: SystemExit.
ImRead ==
    /\ MainStep("imread",
                IF mainIn.image = "readable" THEN "ok" ELSE "failed")
    /\ UNCHANGED mainFs

\* detect_face returns a box and an eye point or raises RuntimeError.
MainDetectFace ==
    /\ \E outcome \in {"ok", "failed"} : MainStep("detect_face", outcome)
    /\ UNCHANGED mainFs

\* replace_background calls the cascade with prefer_white_key, which ends
\* at the heuristic key at the latest, and fills the background image
\* with np.full_like(image_bgr, background_rgb[::-1]), which raises
\* ValueError for a colour that has not one value per channel.
MainReplaceBackground ==
    /\ MainStep("replace_background",
                IF mainIn.background_rgb = "three values" THEN "ok" ELSE "failed")
    /\ UNCHANGED mainFs

\* crop_to_spec returns the photo, or cv2.resize refuses an empty image.
MainCropToSpec ==
    /\ \E outcome \in {"ok", "failed"} : MainStep("crop_to_spec", outcome)
    /\ UNCHANGED mainFs

\* output_dir.mkdir(parents=True, exist_ok=True): the directory exists
\* afterwards, or the file system refuses (OSError).
MkDir ==
    \/ /\ MainStep("mkdir", "ok")
       /\ mainFs' = [mainFs EXCEPT !.dir = TRUE, !.dir_created = ~mainFs.dir]
    \/ /\ ~mainFs.dir
       /\ MainStep("mkdir", "failed")
       /\ UNCHANGED mainFs

\* photo.save(photo_path, quality=95): the file is written, or the file
\* system refuses to open the path (it is a directory, say) and the
\* exception leaves main with the path as it was.
SavePhoto ==
    \/ /\ MainStep("save_photo", "ok")
       /\ mainFs' = [mainFs EXCEPT !.photo = "new"]
    \/ /\ MainStep("save_photo", "failed")
       /\ UNCHANGED mainFs

\* build_print_sheet returns the sheet, or raises: int(round(...)) of a
\* side, margin or spacing that is not finite (ValueError, OverflowError),
\* or the division by a cell size of 0 (ZeroDivisionError).
MainBuildPrintSheet ==
    /\ MainStep("build_print_sheet",
                IF mainIn.layout = "finite" /\ mainIn.sheet_numbers = "usable"
                THEN "ok" ELSE "failed")
    /\ UNCHANGED mainFs

\* sheet.save(sheet_path, quality=95): as for the photo.
SaveSheet ==
    \/ /\ MainStep("save_sheet", "ok")
       /\ mainFs' = [mainFs EXCEPT !.sheet = "new"]
    \/ /\ MainStep("save_sheet", "failed")
       /\ UNCHANGED mainFs

NextMain ==
    \/ ParseArgs \/ LoadSpecs \/ ImRead \/ MainDetectFace \/ MainReplaceBackground
    \/ MainCropToSpec \/ MkDir \/ SavePhoto \/ MainBuildPrintSheet
    \/ SaveSheet

SpecMain == InitMain /\ [][NextMain]_vars

(***************************************************************************)
(* Claims about main.                                                      *)
(***************************************************************************)
\* Some step of the run was the given one and ended with the given outcome.
MainLogged(step, outcome) ==
    \E i \in 1 .. Len(mainLog) : mainLog[i] = <<step, outcome>>

\* C11: the steps of a run are, in this order, spec lookup, image decode,
\* face detection, background replacement when asked for, crop, and (after
\* the directory and the photo file) sheet packing; a step runs only after
\* every step before it succeeded; when spec lookup, image decode or face
\* detection fails it is the last step of the run, the run has left main,
\* the output directory was not created and neither file was written
\* (each is as it was before the run).
C11_OrderAndFatalFailures ==
    /\ Len(mainLog) <= Len(MainSteps(mainIn.replace_bg))
    /\ \A i \in 1 .. Len(mainLog) :
          /\ mainLog[i][1] = MainSteps(mainIn.replace_bg)[i]
          /\ i < Len(mainLog) => mainLog[i][2] = "ok"
    /\ \A step \in {"load_specs", "imread", "detect_face"} :
          MainLogged(step, "failed") =>
             /\ mainLog[Len(mainLog)] = <<step, "failed">>
             /\ mainPc = "exit"
             /\ ~mainFs.dir_created
             /\ mainFs.dir = (mainIn.output_dir # "absent")
             /\ mainFs.photo = OldFile(mainIn.output_dir)
             /\ mainFs.sheet = OldFile(mainIn.output_dir)
    /\ mainFs.dir_created => MainLogged("mkdir", "ok")
    /\ mainFs.photo = "new" => MainLogged("save_photo", "ok")
    /\ mainFs.sheet = "new" =>
          MainLogged("build_print_sheet", "ok") /\ MainLogged("save_sheet", "ok")

\* No face is found in a readable image with background replacement asked
\* for: the run ends after three steps without an output directory.
C11_Witness ==
    /\ mainPc = "exit"
    /\ mainIn.replace_bg /\ mainIn.output_dir = "absent"
    /\ mainLog = <<<<"load_specs", "ok">>, <<"imread", "ok">>,
                    <<"detect_face", "failed">> >>
    /\ ~mainFs.dir /\ mainFs.photo = "absent" /\ mainFs.sheet = "absent"

(***************************************************************************)
(* The sheet generation of the application: _max_copies_for_layout gives   *)
(* the number of copies, and build_print_sheet is called with it.          *)
(***************************************************************************)
\* _max_copies_for_layout.
MaxCopiesOnSheet(in, sheet_w, sheet_h, margin, spacing) ==
    LET available_width == sheet_w - 2 * margin
        available_height == sheet_h - 2 * margin
        max_cols_orig == Max(1, (available_width + spacing) \div (in.photo_w + spacing))
        max_rows_orig == Max(1, (available_height + spacing) \div (in.photo_h + spacing))
        total_photos_orig == max_cols_orig * max_rows_orig
        photo_w_rot == in.photo_h
        photo_h_rot == in.photo_w
        max_cols_rot == Max(1, (available_width + spacing) \div (photo_w_rot + spacing))
        max_rows_rot == Max(1, (available_height + spacing) \div (photo_h_rot + spacing))
        total_photos_rot == max_cols_rot * max_rows_rot
    IN  IF available_width <= 0 \/ available_height <= 0 THEN 0
        ELSE Max(total_photos_orig, total_photos_rot)

max_copies_for_layout(in) ==
    CHOOSE copies \in
        {MaxCopiesOnSheet(in, px[1], px[2], px[3], px[4]) :
            px \in {<<InchesToPx(in.layout_w, in.dpi),
                      InchesToPx(in.layout_h, in.dpi),
                      InchesToPx(in.margin_in, in.dpi),
                      InchesToPx(in.spacing_in, in.dpi)>>}} : TRUE

\* The arguments the application passes to both functions: the photo's
\* size, the layout, the dpi, the margin, the spacing and the guide switch.
GuiSheetInputs ==
    [status : {"call"},
     photo_w : 1 .. MaxPhoto, photo_h : 1 .. MaxPhoto,
     layout_w : Inches(InchDen, MaxLayoutHalves),
     layout_h : Inches(InchDen, MaxLayoutHalves),
     dpi : Dpis,
     margin_in : Inches(0, 1), spacing_in : Inches(0, 2),
     draw_guides : BOOLEAN]

InitGui ==
    /\ guiIn \in GuiSheetInputs
    /\ guiOut = NoGui
    /\ OthersIdle({"gui"})

\* max_copies = _max_copies_for_layout(...); effective_copies = max_copies;
\* sheet = build_print_sheet(..., copies=effective_copies, ...).
GenerateSheet ==
    /\ guiIn.status = "call"
    /\ guiOut.status = "idle"
    /\ LET max_copies == max_copies_for_layout(guiIn)
           effective_copies == max_copies
       IN  guiOut' =
             [status |-> "done", max_copies |-> max_copies,
              sheet |-> build_print_sheet(
                          [status |-> "call",
                           photo_w |-> guiIn.photo_w, photo_h |-> guiIn.photo_h,
                           layout_w |-> guiIn.layout_w, layout_h |-> guiIn.layout_h,
                           dpi |-> guiIn.dpi, margin_in |-> guiIn.margin_in,
                           spacing_in |-> guiIn.spacing_in,
                           copies |-> effective_copies,
                           draw_guides |-> guiIn.draw_guides])]
    /\ UNCHANGED <<guiIn, manVars, bgVars, compVars, keyVars, sheetVars,
                   cropVars, faceVars, segVars, padVars, mainVars, workerVars>>

NextGui == GenerateSheet

SpecGui == InitGui /\ [][NextGui]_vars

\* C28 (as claimed): the automatic copy count is exactly cols * rows of
\* the orientation build_print_sheet chooses, so the sheet built with it
\* fills every cell and holds exactly that many photos.
C28_AutoCopiesMatchPacker ==
    guiOut.status = "done" =>
        LET g == guiOut.sheet.g
        IN  /\ guiOut.max_copies = g.max_cols * g.max_rows
            /\ Len(guiOut.sheet.pasted) = guiOut.max_copies
            /\ Len(guiOut.sheet.pasted) = g.max_cols * g.max_rows

(***************************************************************************)
(* The manual adjustment mode of the application.  Every press of a button *)
(* reruns the script once, with that button reading True; the session      *)
(* state holds scale_factor and the two move offsets between the reruns.   *)
(* The scale factor and the percentages of the crop frame are floats, the  *)
(* move offsets and the pixels integers.                                   *)
(***************************************************************************)
\* max(a, b) and min(a, b) of two floats.
DMax(a, b) ==
    CHOOSE r \in {IF DLess(x, y) THEN y ELSE x : x \in {a}, y \in {b}} : TRUE
DMin(a, b) ==
    CHOOSE r \in {IF DLess(y, x) THEN y ELSE x : x \in {a}, y \in {b}} : TRUE

\* Program constants of the manual mode: the step of Shrink and Enlarge
\* and the bounds of the applied scale, in hundredths; the step of a move;
\* the limits and the sides of the default frame, in percent.
ScaleStep == 15
ScaleLow == 50
ScaleHigh == 200
ScaleDefault == 100
MoveStep == 2
TopLimit == 5
BottomLimit == 95
crop_left_pct == 15
crop_right_pct == 85

\* The float of a number of hundredths, and the float literals 0.15, 0.5,
\* 2.0 and 1.0 of the manual mode; 100 and 2 as floats.
Hundredths(n) == Float(<<n, 100>>)
scale_step == Hundredths(ScaleStep)
scale_low == Hundredths(ScaleLow)
scale_high == Hundredths(ScaleHigh)
scale_default == Hundredths(ScaleDefault)
D100 == DFromInt(100)
D2 == DFromInt(2)

\* session_state.scale_factor after the Shrink and Enlarge buttons.
StoredScale(scale_factor, button) ==
    IF button = "Shrink" THEN DSub(scale_factor, scale_step)
    ELSE IF button = "Enlarge" THEN DAdd(scale_factor, scale_step)
    ELSE scale_factor

\* scale_factor = max(0.5, min(2.0, scale_factor)).
AppliedScale(scale_factor) ==
    DMax(scale_low, DMin(scale_high, scale_factor))

\* crop_top_pct and crop_bottom_pct, the default frame of the spec:
\* max(5, int((1 - eye - head / 2) * 100)) and
\* min(95, int((1 - eye + head / 2) * 100)).
DefaultFrame(spec) ==
    CHOOSE d \in
        {[crop_top_pct |->
              Max(TopLimit, DTrunc(DMul(DSub(eye_from_top, half_head), D100))),
          crop_bottom_pct |->
              Min(BottomLimit, DTrunc(DMul(DAdd(eye_from_top, half_head), D100)))] :
            eye_from_top \in {DSub(DFromInt(1), spec.eye_line_from_bottom_ratio)},
            half_head \in {DDiv(spec.head_height_ratio, D2)}} : TRUE

\* <<scaled_height, scaled_width>>: the frame's height and width in
\* percent after the scale factor, the aspect lock and the two caps at
\* 100, for target_aspect = width_in / height_in and h_over_w =
\* h_zoom / w_zoom.
ScaledSizes(height_range, scale_factor, target_aspect, h_over_w) ==
    CHOOSE sizes \in
        {IF DLess(D100, second[1])
         THEN <<D100, DMul(DMul(D100, target_aspect), h_over_w)>>
         ELSE second :
            second \in
                {IF DLess(D100, first[2])
                 THEN <<DDiv(D100, DMul(target_aspect, h_over_w)), D100>>
                 ELSE first :
                    first \in
                        {<<scaled_height,
                           DMul(DMul(scaled_height, target_aspect), h_over_w)>> :
                            scaled_height \in
                                {DMul(DFromInt(height_range), scale_factor)}}}} :
        TRUE

\* One axis of the frame without the clamp of the moved centre.
MovedEdgesUnclamped(size, center, move_offset, length) ==
    CHOOSE edges \in
        {<<DTrunc(DDiv(DMul(DFromInt(size), DSub(moved[2], moved[1])), D100)),
           DTrunc(DDiv(DMul(DFromInt(size), DAdd(moved[2], moved[1])), D100))>> :
            moved \in
                {<<half, DAdd(center, DFromInt(move_offset))>> :
                     half \in {DDiv(length, D2)}}} : TRUE

\* One axis of the frame: the centre is moved by the offset and clamped
\* so that the frame of the given length stays within 0..100 percent; the
\* two edges, in percent, become pixel indices of an axis of length size
\* by int(size * edge / 100).
MovedEdges(size, center, move_offset, length) ==
    CHOOSE edges \in
        {<<DTrunc(DDiv(DMul(DFromInt(size), DSub(moved[2], moved[1])), D100)),
           DTrunc(DDiv(DMul(DFromInt(size), DAdd(moved[2], moved[1])), D100))>> :
            moved \in
                {<<half, DMin(DMax(DAdd(center, DFromInt(move_offset)), half),
                              DSub(D100, half))>> :
                     half \in {DDiv(length, D2)}}} : TRUE

\* The crop rectangle for a default frame d and the scaled sizes.
FrameOfSizes(w_zoom, h_zoom, d, sizes, move_offset_x, move_offset_y) ==
    CHOOSE frame \in
        {[y1 |-> ys[1], y2 |-> ys[2], x1 |-> xs[1], x2 |-> xs[2]] :
            ys \in {MovedEdges(h_zoom,
                               DDiv(DFromInt(d.crop_top_pct + d.crop_bottom_pct), D2),
                               move_offset_y, sizes[1])},
            xs \in {MovedEdges(w_zoom,
                               DDiv(DFromInt(crop_left_pct + crop_right_pct), D2),
                               move_offset_x, sizes[2])}} : TRUE

\* The crop rectangle of one rerun, from the image's size, the spec, the
\* applied scale factor and the two move offsets.
ManualFrame(w_zoom, h_zoom, spec, scale_factor, move_offset_x, move_offset_y) ==
    CHOOSE frame \in
        {FrameOfSizes(w_zoom, h_zoom, t[1], t[2], move_offset_x, move_offset_y) :
            t \in {<<d, ScaledSizes(d.crop_bottom_pct - d.crop_top_pct,
                                    scale_factor, target_aspect, h_over_w)>> :
                      d \in {DefaultFrame(spec)},
                      target_aspect \in {DDiv(spec.width_in, spec.height_in)},
                      h_over_w \in {DDiv(DFromInt(h_zoom), DFromInt(w_zoom))}}} :
        TRUE

\* The buttons of the manual mode; "none" is a rerun without a press.
ManualButtons ==
    {"none", "Shrink", "Enlarge", "Reset Size",
     "Up", "Left", "Right", "Down", "Reset Pos"}

\* session_state after the buttons of one rerun: Shrink and Enlarge store
\* the stepped scale, Reset Size stores 1.0, the four moves step an offset
\* and Reset Pos clears both.
PressedSession(session, button) ==
    [status |-> "open",
     scale_factor |-> IF button = "Reset Size" THEN scale_default
                      ELSE StoredScale(session.scale_factor, button),
     move_offset_x |-> IF button = "Reset Pos" THEN 0
                       ELSE IF button = "Left" THEN session.move_offset_x - MoveStep
                       ELSE IF button = "Right" THEN session.move_offset_x + MoveStep
                       ELSE session.move_offset_x,
     move_offset_y |-> IF button = "Reset Pos" THEN 0
                       ELSE IF button = "Up" THEN session.move_offset_y - MoveStep
                       ELSE IF button = "Down" THEN session.move_offset_y + MoveStep
                       ELSE session.move_offset_y]

\* One rerun of the manual mode with the button pressed: the session state
\* it leaves, the two metrics it shows (drawn before the reset buttons are
\* read), the scale it applies, the crop rectangle, and whether
\* current_aspect = crop_w / crop_h raises.
ManualRerun(in, session, button) ==
    CHOOSE result \in
        {[session |-> t[1],
          rerun |-> [status |-> IF t[3].y2 - t[3].y1 = 0
                                THEN "ZeroDivisionError" ELSE "done",
                     button |-> button,
                     scale_display |-> shown.scale_factor,
                     move_x |-> shown.move_offset_x,
                     move_y |-> shown.move_offset_y,
                     scale_factor |-> t[2],
                     x1 |-> t[3].x1, y1 |-> t[3].y1,
                     x2 |-> t[3].x2, y2 |-> t[3].y2]] :
            shown \in {PressedSession(session,
                                      IF button \in {"Reset Size", "Reset Pos"}
                                      THEN "none" ELSE button)},
            t \in {<<after, scale_factor,
                     ManualFrame(in.w, in.h, in.spec, scale_factor,
                                 after.move_offset_x, after.move_offset_y)>> :
                      after \in {PressedSession(session, button)},
                      scale_factor \in
                          {AppliedScale(PressedSession(session, button).scale_factor)}}} :
        TRUE

\* The sizes <<width, height>> of the uploaded image. The manual block
\* runs only after detect_face and crop_to_spec succeeded on the image, and
\* detect_face asks for a face of at least minSize = (20, 20) in its
\* second pass, so that no image is smaller than that on either side.
MinFaceSide == 20
ManualSizes ==
    {<<MinFaceSide, MinFaceSide>>, <<CropExample.img_w, CropExample.img_h>>}

\* The presses the model follows: Shrink and Enlarge up to MaxScaleSteps
\* steps away from the default, the moves up to MaxMoveSteps steps away
\* from the centre, both axes taken together.
MaxScaleSteps == 7
MaxMoveSteps == 1

\* The sessions the model follows: the photograph of the worked example
\* with its spec, 2in x 2in, and the smallest image with the other spec,
\* whose frame is the narrower one.
ManualInputs ==
    {[status |-> "open", w |-> size[1], h |-> size[2],
      spec |-> IF size = <<CropExample.img_w, CropExample.img_h>>
               THEN CropExample.spec
               ELSE CHOOSE spec \in PhotoSpecs : spec # CropExample.spec] :
         size \in ManualSizes}

\* The session state of a new session: no attribute is set, and getattr
\* gives the defaults 1.0, 0 and 0.
InitManual ==
    /\ manIn \in ManualInputs
    /\ manSession = [status |-> "open", scale_factor |-> scale_default,
                     move_offset_x |-> 0, move_offset_y |-> 0]
    /\ manRerun = NoManual
    /\ OthersIdle({"manual"})

ManualWithinBounds(session) ==
    /\ ~DLess(Hundredths(MaxScaleSteps * ScaleStep),
              DAbs(DSub(session.scale_factor, scale_default)))
    /\ Abs(session.move_offset_x) + Abs(session.move_offset_y)
           <= MaxMoveSteps * MoveStep

Press(button) ==
    /\ ManualWithinBounds(PressedSession(manSession, button))
    /\ \E r \in {ManualRerun(manIn, manSession, button)} :
          /\ manSession' = r.session
          /\ manRerun' = r.rerun
    /\ UNCHANGED <<manIn, guiVars, bgVars, compVars, keyVars, sheetVars,
                   cropVars, faceVars, segVars, padVars, mainVars, workerVars>>

Rerun == manIn.status = "open" /\ Press("none")
Shrink == manIn.status = "open" /\ Press("Shrink")
Enlarge == manIn.status = "open" /\ Press("Enlarge")
ResetSize == manIn.status = "open" /\ Press("Reset Size")
Up == manIn.status = "open" /\ Press("Up")
Left == manIn.status = "open" /\ Press("Left")
Right == manIn.status = "open" /\ Press("Right")
Down == manIn.status = "open" /\ Press("Down")
ResetPos == manIn.status = "open" /\ Press("Reset Pos")

NextManual ==
    \/ Rerun \/ Shrink \/ Enlarge \/ ResetSize
    \/ Up \/ Left \/ Right \/ Down \/ ResetPos

SpecManual == InitManual /\ [][NextManual]_vars

ManualRan == manRerun.status # "idle"

\* C29: after any sequence of presses, for every image size and spec, the
\* crop rectangle lies inside the image and is not empty:
\* 0 <= x1 < x2 <= image width and 0 <= y1 < y2 <= image height.
C29_FrameInsideNonEmpty ==
    ManualRan =>
        /\ 0 <= manRerun.x1 /\ manRerun.x1 < manRerun.x2 /\ manRerun.x2 <= manIn.w
        /\ 0 <= manRerun.y1 /\ manRerun.y1 < manRerun.y2 /\ manRerun.y2 <= manIn.h

\* The smallest image, shrunk below the lower limit of the scale and moved
\* off the centre: the rectangle is inside the image and not empty.
C29_Witness ==
    /\ manRerun.status = "done"
    /\ manIn.w = MinFaceSide /\ manIn.h = MinFaceSide
    /\ DLess(manSession.scale_factor, scale_low)
    /\ manSession.move_offset_x # 0
    /\ 0 <= manRerun.x1 /\ manRerun.x1 < manRerun.x2 /\ manRerun.x2 <= manIn.w
    /\ 0 <= manRerun.y1 /\ manRerun.y1 < manRerun.y2 /\ manRerun.y2 <= manIn.h

\* C30 (as claimed): in every rerun the Scale Factor shown equals the
\* scale factor applied in that rerun, which lies in [0.5, 2.0]; and a
\* press of Enlarge changes the applied scale unless it is 2.0 already, a
\* press of Shrink unless it is 0.5 already.
C30_ShownScaleIsApplied ==
    /\ [](ManualRan =>
            /\ manRerun.scale_display = manRerun.scale_factor
            /\ ~DLess(manRerun.scale_factor, scale_low)
            /\ ~DLess(scale_high, manRerun.scale_factor))
    /\ [][(ManualRan /\ manRerun'.button = "Enlarge"
             /\ DLess(manRerun.scale_factor, scale_high))
           => manRerun'.scale_factor # manRerun.scale_factor]_vars
    /\ [][(ManualRan /\ manRerun'.button = "Shrink"
             /\ DLess(scale_low, manRerun.scale_factor))
           => manRerun'.scale_factor # manRerun.scale_factor]_vars

====
